---------------------------- MODULE Spec2Model ----------------------------
(***************************************************************************)
(* State-synchronisation and query-correlation engine of Push2-Resolume:   *)
(* ResolumeOSCListener (src/src/OSCListener.h), PropertyDictionary         *)
(* (src/src/PropertyDictionary.h) and Effect / Clip / Layer /              *)
(* ResolumeTracker (src/src/ResolumeTrackerOSC.h).                         *)
(*                                                                         *)
(* Representation.  An OSC address is a sequence of tokens in which "/" is *)
(* the separator character and every other token is a maximal slash-free   *)
(* run of characters.  A float payload is an integer number of halves      *)
(* (0 is 0.0, 1 is 0.5, 2 is 1.0).  A dictionary key is the token sequence *)
(* of the joined endpoint.                                                 *)
(***************************************************************************)
EXTENDS Integers, Sequences, FiniteSets, TLC

VARIABLES
    \* ResolumeTracker
    layers, selectedColumnId, selectedLayerId, selectedClipLayerId,
    selectedClipId, connectedColumnId, currentDeckId, deckInitialized,
    shouldStopProcessing,
    \* ResolumeOSCListener
    messageQueue, pendingQueries, sent,
    \* worker thread (messageProcessingLoop): position and dequeued message
    wpc, wmsg,
    \* caller threads inside query()/QueryInt()/QueryFloat()/QueryString()
    pc, qaddr, qkind, outcome, result,
    \* steady_clock
    now,
    \* observation (history) variables
    delivered, enqueued, applied, qseen, qsolo, actor, prev, lastMsg,
    clearMark, reported

trackerVars == <<layers, selectedColumnId, selectedLayerId, selectedClipLayerId,
                 selectedClipId, connectedColumnId, currentDeckId,
                 deckInitialized>>
listenerVars == <<messageQueue, pendingQueries, sent>>
workerVars == <<wpc, wmsg, shouldStopProcessing>>
callerVars == <<pc, qaddr, qkind, outcome, result>>
histVars == <<delivered, enqueued, applied, qseen, qsolo, actor, prev,
              lastMsg, clearMark, reported>>
vars == <<trackerVars, listenerVars, workerVars, callerVars, now, histVars>>

----------------------------------------------------------------------------
(* Bounds of the model *)

\* number of messages the transport delivers in one behaviour of SpecIngest
MaxMsgs == 3
\* number of messages the transport delivers in one behaviour of SpecQuery
MaxReplies == 2
\* number of messages the worker applies in one behaviour of SpecRouter
MaxSteps == 5
\* number of query() calls in one behaviour
MaxQueries == 2
\* number of clock advances in one behaviour of SpecClock
MaxTicks == 4

----------------------------------------------------------------------------
(* Constants of the program *)

\* getOrCreateLayer: "if (layerId > 100)"
MaxLayerId == 100
\* Clip::exists: "properties.size() > 3"
ExistsThreshold == 3
\* Clip::playing: "timeSinceUpdate.count() < 100"
PlayingWindowMs == 100
\* the float 1.0 in halves ("floats[0] == 1.0f")
FloatOne == 2

----------------------------------------------------------------------------
(* Tokens, numbers and payloads *)

Slash == "/"

\* std::stoi on the numeric tokens the model feeds in; tokens outside the
\* table make std::stoi throw std::invalid_argument
StoiTable ==
    [tok \in {"0", "1", "2", "3", "101", "-1", "2x"} |->
        CASE tok = "0" -> 0
          [] tok = "1" -> 1
          [] tok = "2" -> 2
          [] tok = "3" -> 3
          [] tok = "101" -> 101
          [] tok = "-1" -> 0 - 1
          [] tok = "2x" -> 2]

StoiThrows(tok) == tok \notin DOMAIN StoiTable

Stoi(tok) == StoiTable[tok]

\* "parts[1].empty() || !std::isdigit(parts[1][0])" negated
StartsWithDigit(tok) == tok \in {"0", "1", "2", "3", "101", "2x"}

\* address.find("/composition") == 0
HasCompositionPrefix(address) ==
    /\ Len(address) >= 2
    /\ address[1] = Slash
    /\ address[2] \in {"composition", "compositions"}

splitOSCPath(address) ==
    IF address = <<>> \/ address[1] # Slash
    THEN <<>>
    ELSE SelectSeq(address, LAMBDA tok : tok # Slash)

\* the loop "if (i > 0) endpoint += "/"; endpoint += parts[i];"
RECURSIVE JoinEndpoint(_)
JoinEndpoint(parts) ==
    IF parts = <<>> THEN <<>>
    ELSE IF Len(parts) = 1 THEN <<parts[1]>>
    ELSE <<parts[1], Slash>> \o JoinEndpoint(Tail(parts))

Back(s) == s[Len(s)]

DropFirst(s, n) == SubSeq(s, n + 1, Len(s))

----------------------------------------------------------------------------
(* PropertyDictionary *)

FloatValue(v) == [type |-> "float", num |-> v, str |-> ""]
IntValue(v) == [type |-> "int", num |-> v, str |-> ""]
StringValue(v) == [type |-> "string", num |-> 0, str |-> v]

EmptyProperties == [k \in {} |-> FloatValue(0)]

setValue(properties, key, value) ==
    [k \in (DOMAIN properties) \cup {key} |->
        IF k = key THEN value ELSE properties[k]]

setFloat(properties, key, v) == setValue(properties, key, FloatValue(v))
setInt(properties, key, v) == setValue(properties, key, IntValue(v))
setString(properties, key, v) == setValue(properties, key, StringValue(v))

hasProperty(properties, key) == key \in DOMAIN properties

PropertiesSize(properties) == Cardinality(DOMAIN properties)

\* static_cast<int>(float): truncation of a non-negative number of halves
\* static_cast<float>(int): the int as a number of halves
getFloat(properties, key, defaultValue) ==
    IF key \in DOMAIN properties
    THEN IF properties[key].type = "float" THEN properties[key].num
         ELSE IF properties[key].type = "int" THEN 2 * properties[key].num
         ELSE defaultValue
    ELSE defaultValue

\* variant: getInt answers the default for a stored float
getInt_NoCoercion(properties, key, defaultValue) ==
    IF key \in DOMAIN properties /\ properties[key].type = "int"
    THEN properties[key].num
    ELSE defaultValue

getInt(properties, key, defaultValue) ==
    IF key \in DOMAIN properties
    THEN IF properties[key].type = "int" THEN properties[key].num
         ELSE IF properties[key].type = "float"
              THEN properties[key].num \div 2
         ELSE defaultValue
    ELSE defaultValue

getString(properties, key, defaultValue) ==
    IF key \in DOMAIN properties /\ properties[key].type = "string"
    THEN properties[key].str
    ELSE defaultValue

\* variant: integers are looked at before floats
setFromOSCData_IntsFirst(properties, endpoint, floats, integers, strings) ==
    IF integers # <<>> THEN setInt(properties, endpoint, integers[1])
    ELSE IF floats # <<>> THEN setFloat(properties, endpoint, floats[1])
    ELSE IF strings # <<>> THEN setString(properties, endpoint, strings[1])
    ELSE properties

setFromOSCData(properties, endpoint, floats, integers, strings) ==
    IF floats # <<>> THEN setFloat(properties, endpoint, floats[1])
    ELSE IF integers # <<>> THEN setInt(properties, endpoint, integers[1])
    ELSE IF strings # <<>> THEN setString(properties, endpoint, strings[1])
    ELSE properties

----------------------------------------------------------------------------
(* Effect *)

NewEffect(effectId, effectName) ==
    [id |-> effectId, name |-> effectName, properties |-> EmptyProperties]

Effect_processOSCMessage(effect, pathParts, floats, integers, strings) ==
    [effect EXCEPT !.properties =
        setFromOSCData(@, JoinEndpoint(pathParts), floats, integers, strings)]

\* position of the effect named effectName, 0 when the linear scan finds none
EffectIndex(effects, effectName) ==
    IF \E i \in 1..Len(effects) : effects[i].name = effectName
    THEN CHOOSE i \in 1..Len(effects) :
            /\ effects[i].name = effectName
            /\ \A j \in 1..(i - 1) : effects[j].name # effectName
    ELSE 0

\* variant: no scan, every call appends an effect
getOrCreateEffect_AlwaysAppend(effects, effectName) ==
    Append(effects, NewEffect(Len(effects) + 1, effectName))

\* the effect list after getOrCreateEffect(effectName)
getOrCreateEffect(effects, effectName) ==
    IF EffectIndex(effects, effectName) # 0 THEN effects
    ELSE Append(effects, NewEffect(Len(effects) + 1, effectName))

\* getOrCreateEffect(name)->processOSCMessage(remainingPath, ...)
EffectsProcess(effects, parts, floats, integers, strings) ==
    LET grown == getOrCreateEffect(effects, parts[3])
        i == EffectIndex(grown, parts[3])
    IN [grown EXCEPT ![i] =
            Effect_processOSCMessage(@, DropFirst(parts, 3), floats, integers,
                                     strings)]

IsEffectPath(parts) ==
    parts[1] = "video" /\ Len(parts) >= 3 /\ parts[2] = "effects"

----------------------------------------------------------------------------
(* Clip *)

TransportPosition == <<"transport", Slash, "position">>

NewClip(clipId, clk) ==
    [id |-> clipId, name |-> "", properties |-> EmptyProperties,
     effects |-> <<>>, lastTransportUpdate |-> clk]

Clip_exists(clip) == PropertiesSize(clip.properties) > ExistsThreshold

Clip_playing(clip, clk) ==
    /\ clk - clip.lastTransportUpdate < PlayingWindowMs
    /\ getFloat(clip.properties, TransportPosition, 0) > 0

forceExpire(clip) ==
    [clip EXCEPT !.properties = setFloat(@, TransportPosition, 0)]

Clip_processOSCMessage(clip, pathParts, floats, integers, strings, clk) ==
    IF pathParts = <<>>
    THEN [clip EXCEPT !.properties =
            setFromOSCData(@, <<>>, floats, integers, strings)]
    ELSE IF Len(pathParts) = 1 /\ pathParts[1] = "name" /\ strings # <<>>
    THEN [clip EXCEPT !.name = strings[1]]
    ELSE
      LET stamped ==
            IF /\ Len(pathParts) = 2
               /\ pathParts[1] = "transport"
               /\ pathParts[2] = "position"
            THEN [clip EXCEPT !.lastTransportUpdate = clk]
            ELSE clip
      IN IF IsEffectPath(pathParts)
         THEN [stamped EXCEPT !.effects =
                 EffectsProcess(@, pathParts, floats, integers, strings)]
         ELSE [stamped EXCEPT !.properties =
                 setFromOSCData(@, JoinEndpoint(pathParts), floats, integers,
                                strings)]

----------------------------------------------------------------------------
(* Layer *)

NewLayer(layerId) ==
    [id |-> layerId, properties |-> EmptyProperties, effects |-> <<>>,
     clips |-> <<>>]

\* variant: growing the list replaces the clips that were there
getOrCreateClip_Rebuild(clips, clipId, clk) ==
    IF clipId < 1 THEN clips
    ELSE IF clipId > Len(clips)
    THEN [i \in 1..clipId |->
            [id |-> i, name |-> "", properties |-> EmptyProperties,
             effects |-> <<>>, lastTransportUpdate |-> clk]]
    ELSE clips

\* the clip list after getOrCreateClip(clipId); clipId < 1 returns nullptr
\* and leaves the list alone
getOrCreateClip(clips, clipId, clk) ==
    IF clipId < 1 THEN clips
    ELSE IF clipId > Len(clips)
    THEN [i \in 1..clipId |->
            IF i <= Len(clips) THEN clips[i] ELSE NewClip(i, clk)]
    ELSE clips

\* Layer::getClip: TRUE when it returns a clip, FALSE when it returns nullptr
HasClip(layer, clipId) == clipId >= 1 /\ clipId <= Len(layer.clips)

Layer_processOSCMessage(layer, pathParts, floats, integers, strings, clk) ==
    IF pathParts = <<>>
    THEN [layer EXCEPT !.properties =
            setFromOSCData(@, <<>>, floats, integers, strings)]
    ELSE IF pathParts[1] = "clips" /\ Len(pathParts) >= 2
    THEN IF ~StartsWithDigit(pathParts[2]) THEN layer
         ELSE LET clipId == Stoi(pathParts[2])
                  grown == getOrCreateClip(layer.clips, clipId, clk)
              IN IF clipId < 1 THEN layer
                 ELSE [layer EXCEPT !.clips =
                        [grown EXCEPT ![clipId] =
                            Clip_processOSCMessage(@, DropFirst(pathParts, 2),
                                floats, integers, strings, clk)]]
    ELSE IF IsEffectPath(pathParts)
    THEN [layer EXCEPT !.effects =
            EffectsProcess(@, pathParts, floats, integers, strings)]
    ELSE [layer EXCEPT !.properties =
            setFromOSCData(@, JoinEndpoint(pathParts), floats, integers,
                           strings)]

timeoutAllExcept(layer, exceptClipId) ==
    [layer EXCEPT !.clips =
        [i \in 1..Len(layer.clips) |->
            IF layer.clips[i].id # exceptClipId
            THEN forceExpire(layer.clips[i])
            ELSE layer.clips[i]]]

----------------------------------------------------------------------------
(* ResolumeTracker.  A tracker value t is the record of the tracker's      *)
(* fields together with the listener's messageQueue, which clear() drains  *)
(* through the oscListener pointer.                                        *)

Tracker ==
    [layers |-> layers,
     selectedColumnId |-> selectedColumnId,
     selectedLayerId |-> selectedLayerId,
     selectedClipLayerId |-> selectedClipLayerId,
     selectedClipId |-> selectedClipId,
     connectedColumnId |-> connectedColumnId,
     currentDeckId |-> currentDeckId,
     deckInitialized |-> deckInitialized,
     messageQueue |-> messageQueue]

\* the state the constructor leaves (ResolumeTracker::ResolumeTracker and
\* the member initialisers)
NewTracker ==
    [layers |-> <<>>,
     selectedColumnId |-> 0,
     selectedLayerId |-> 0,
     selectedClipLayerId |-> 0,
     selectedClipId |-> 0,
     connectedColumnId |-> 0,
     currentDeckId |-> 0,
     deckInitialized |-> FALSE,
     messageQueue |-> <<>>]

clearMessageQueue(queue) == <<>>

\* variant: the commented-out body, which empties each layer instead of
\* dropping the layer list
clear_KeepLayers(t) ==
    [t EXCEPT !.selectedColumnId = 0,
              !.connectedColumnId = 0,
              !.selectedLayerId = 0,
              !.selectedClipLayerId = 0,
              !.selectedClipId = 0,
              !.messageQueue = clearMessageQueue(@),
              !.layers = [i \in 1..Len(t.layers) |-> NewLayer(i)]]

clear(t) ==
    [t EXCEPT !.selectedColumnId = 0,
              !.connectedColumnId = 0,
              !.selectedLayerId = 0,
              !.selectedClipLayerId = 0,
              !.selectedClipId = 0,
              !.messageQueue = clearMessageQueue(@),
              !.layers = <<>>]

setCurrentDeck(t, deckId) ==
    LET c == IF t.deckInitialized /\ deckId # t.currentDeckId
             THEN clear(t) ELSE t
    IN [c EXCEPT !.currentDeckId = deckId, !.deckInitialized = TRUE]

\* variant: no upper limit on layer ids
LayerIdAccepted_NoCeiling(layerId) == layerId >= 1

\* the layer list after getOrCreateLayer(layerId); when the call returns
\* nullptr the list is left alone
LayerIdAccepted(layerId) == layerId >= 1 /\ layerId <= MaxLayerId

\* variant: a new layer is appended without the layers below it
getOrCreateLayer_NoPadding(ls, layerId) ==
    IF ~LayerIdAccepted(layerId) THEN ls
    ELSE IF layerId > Len(ls)
    THEN Append(ls, NewLayer(layerId))
    ELSE ls

getOrCreateLayer(ls, layerId) ==
    IF ~LayerIdAccepted(layerId) THEN ls
    ELSE IF layerId > Len(ls)
    THEN [i \in 1..layerId |-> IF i <= Len(ls) THEN ls[i] ELSE NewLayer(i)]
    ELSE ls

\* getLayer: TRUE when it returns a layer, FALSE when it returns nullptr
HasLayer(t, layerId) == layerId >= 1 /\ layerId <= Len(t.layers)

getLayerCount(t) == Len(t.layers)

NamedClips(layer) ==
    {j \in 1..Len(layer.clips) : layer.clips[j].name # ""}

getColumnCount(t) ==
    IF t.layers = <<>> THEN 0
    ELSE LET counts == {Cardinality(NamedClips(t.layers[i])) :
                            i \in 1..Len(t.layers)}
         IN CHOOSE c \in counts : \A d \in counts : d <= c

doesClipExist(t, column, layer) ==
    /\ HasLayer(t, layer)
    /\ HasClip(t.layers[layer], column)
    /\ Clip_exists(t.layers[layer].clips[column])

isColumnConnected(t, column) == t.connectedColumnId = column

isClipPlaying(t, column, layer, clk) ==
    /\ HasLayer(t, layer)
    /\ HasClip(t.layers[layer], column)
    /\ Clip_playing(t.layers[layer].clips[column], clk)

doesLayerExist(t, layer) ==
    /\ HasLayer(t, layer)
    /\ NamedClips(t.layers[layer]) # {}

\* "--- 1. Handle deck selection and deck change ---"
DeckSelect(t, pathParts, integers) ==
    IF StoiThrows(pathParts[2]) THEN t
    ELSE LET deckId == Stoi(pathParts[2])
         IN IF /\ pathParts[3] = "select"
               /\ integers = <<>>
               /\ deckId # t.currentDeckId
            THEN [clear(t) EXCEPT !.currentDeckId = deckId]
            ELSE t

\* variant: any connect payload counts as asserting
Asserting_AnyPayload(floats, integers) ==
    integers # <<>> \/ floats # <<>>

Asserting(floats, integers) ==
    \/ (integers # <<>> /\ integers[1] = 1)
    \/ (floats # <<>> /\ floats[1] = FloatOne)

\* "--- 3. Trickledown: pass to appropriate layer/clip/effect ---"
Trickledown(t, pathParts, floats, integers, strings, clk) ==
    IF pathParts[1] = "layers" /\ Len(pathParts) >= 2
    THEN IF StoiThrows(pathParts[2]) THEN t
         ELSE LET layerId == Stoi(pathParts[2])
                  grown == getOrCreateLayer(t.layers, layerId)
              IN IF ~LayerIdAccepted(layerId) THEN t
                 ELSE [t EXCEPT !.layers =
                        [grown EXCEPT ![layerId] =
                            Layer_processOSCMessage(@, DropFirst(pathParts, 2),
                                floats, integers, strings, clk)]]
    ELSE t

\* the code after the select/connect block: "Skip certain endpoints", then
\* the trickledown
AfterSelectBlock(t, pathParts, floats, integers, strings, clk) ==
    IF Back(pathParts) \in {"selected", "connected"} THEN t
    ELSE Trickledown(t, pathParts, floats, integers, strings, clk)

\* "selectedColumnId = columnId"
SetSelectedColumn(t, columnId) == [t EXCEPT !.selectedColumnId = columnId]

\* "connectedColumnId = columnId"
SetConnectedColumn(t, columnId) == [t EXCEPT !.connectedColumnId = columnId]

\* variant: selecting the selected layer again deselects it
SetSelectedLayer_Toggle(t, layerId) ==
    [t EXCEPT !.selectedLayerId = IF @ = layerId THEN 0 ELSE layerId]

\* variant: selecting a layer creates it
SetSelectedLayer_CreatesLayer(t, layerId) ==
    [t EXCEPT !.selectedLayerId = layerId,
              !.layers = getOrCreateLayer(@, layerId)]

\* "selectedLayerId = layerId"
SetSelectedLayer(t, layerId) == [t EXCEPT !.selectedLayerId = layerId]

\* "selectedClipLayerId = layerId; selectedClipId = clipId"
SetSelectedClip(t, layerId, clipId) ==
    [t EXCEPT !.selectedClipLayerId = layerId, !.selectedClipId = clipId]

\* "Check for select/connect messages"
SelectConnect(t, pathParts, floats, integers, strings, clk) ==
    LET isSelect == Back(pathParts) = "select"
        isConnect == Back(pathParts) = "connect"
        rest == AfterSelectBlock(t, pathParts, floats, integers, strings, clk)
    IN IF isSelect \/ (isConnect /\ Asserting(floats, integers))
       THEN IF pathParts[1] = "columns"
            THEN IF StoiThrows(pathParts[2]) THEN t
                 ELSE IF isSelect
                 THEN SetSelectedColumn(t, Stoi(pathParts[2]))
                 ELSE SetConnectedColumn(t, Stoi(pathParts[2]))
            ELSE IF pathParts[1] = "layers"
            THEN IF StoiThrows(pathParts[2]) THEN t
                 ELSE IF Len(pathParts) = 3 /\ pathParts[3] = "select"
                 THEN SetSelectedLayer(t, Stoi(pathParts[2]))
                 ELSE IF Len(pathParts) >= 4 /\ pathParts[3] = "clips"
                 THEN IF ~StartsWithDigit(pathParts[4]) THEN t
                      ELSE IF isSelect
                      THEN SetSelectedClip(t, Stoi(pathParts[2]),
                                           Stoi(pathParts[4]))
                      ELSE t
                 ELSE rest
            ELSE rest
       ELSE rest

processOSCMessage(t, address, floats, integers, strings, clk) ==
    IF ~HasCompositionPrefix(address) THEN t
    ELSE LET split == splitOSCPath(address)
         IN IF split = <<>> THEN t
            ELSE IF split[1] # "composition" THEN t
            ELSE LET pathParts == Tail(split)
                 IN IF pathParts = <<>> THEN t
                    ELSE IF pathParts[1] = "decks" /\ Len(pathParts) >= 3
                    THEN DeckSelect(t, pathParts, integers)
                    ELSE SelectConnect(t, pathParts, floats, integers,
                                       strings, clk)

----------------------------------------------------------------------------
(* ResolumeOSCListener *)

\* OSCListenerMessage{}; seq is an observation tag: the position of the
\* message in the transport's delivery order, 0 for no message
EmptyMessage ==
    [hasValue |-> FALSE, address |-> <<>>, floats |-> <<>>,
     integers |-> <<>>, strings |-> <<>>, seq |-> 0]

EmptyPending == [a \in {} |-> EmptyMessage]

\* "pendingQueries[address] = value" / "it->second = value"
PendingPut(pending, address, slot) ==
    [a \in (DOMAIN pending) \cup {address} |->
        IF a = address THEN slot ELSE pending[a]]

\* variant: an insert that keeps an entry that is already there
RegisterQuery_KeepExisting(pending, address) ==
    IF address \in DOMAIN pending THEN pending
    ELSE PendingPut(pending, address, EmptyMessage)

\* query: "pendingQueries[address] = OSCListenerMessage{}"
RegisterQuery(pending, address) ==
    PendingPut(pending, address, EmptyMessage)

\* variant: the entry stays in the map
PendingErase_KeepEntry(pending, address) == pending

\* variant: only an entry that holds a reply is erased
PendingErase_OnlySatisfied(pending, address) ==
    IF address \in DOMAIN pending /\ pending[address].hasValue
    THEN [a \in (DOMAIN pending) \ {address} |-> pending[a]]
    ELSE pending

\* pendingQueries.erase(address)
PendingErase(pending, address) ==
    [a \in (DOMAIN pending) \ {address} |-> pending[a]]

\* the wait predicate "pendingQueries[address].hasValue"
PendingHasValue(pending, address) ==
    address \in DOMAIN pending /\ pending[address].hasValue

\* variant: the reply is handed to the query and queued as well
ProcessMessage_AlsoQueues(pending, queue, m) ==
    IF m.address \in DOMAIN pending /\ ~pending[m.address].hasValue
    THEN [pendingQueries |-> PendingPut(pending, m.address, m),
          messageQueue |-> Append(queue, m),
          queued |-> TRUE]
    ELSE [pendingQueries |-> pending,
          messageQueue |-> Append(queue, m),
          queued |-> TRUE]

\* variant: a message that finds its slot already satisfied is discarded
ProcessMessage_DropsWhenSatisfied(pending, queue, m) ==
    IF m.address \in DOMAIN pending /\ ~pending[m.address].hasValue
    THEN [pendingQueries |-> PendingPut(pending, m.address, m),
          messageQueue |-> queue,
          queued |-> FALSE]
    ELSE IF m.address \in DOMAIN pending
    THEN [pendingQueries |-> pending,
          messageQueue |-> queue,
          queued |-> FALSE]
    ELSE [pendingQueries |-> pending,
          messageQueue |-> Append(queue, m),
          queued |-> TRUE]

\* ProcessMessage after the arguments are parsed: the pending-query check,
\* then the push on the queue
ProcessMessage(pending, queue, m) ==
    IF m.address \in DOMAIN pending /\ ~pending[m.address].hasValue
    THEN [pendingQueries |-> PendingPut(pending, m.address, m),
          messageQueue |-> queue,
          queued |-> FALSE]
    ELSE [pendingQueries |-> pending,
          messageQueue |-> Append(queue, m),
          queued |-> TRUE]

\* variant: takes the newest message instead of the oldest
getNextMessage_Newest(queue) ==
    [message |-> queue[Len(queue)],
     messageQueue |-> SubSeq(queue, 1, Len(queue) - 1)]

\* variant: returns the oldest message and empties the queue
getNextMessage_DropsRest(queue) ==
    [message |-> Head(queue), messageQueue |-> <<>>]

\* getNextMessage on a non-empty queue: the message it returns and the
\* queue it leaves
getNextMessage(queue) ==
    [message |-> Head(queue), messageQueue |-> Tail(queue)]

\* the outcomes of QueryInt / QueryFloat / QueryString on a received reply:
\* "return result.integers[0]" and its siblings read element 0 of a vector
\* that may be empty, which is undefined behaviour (a garbage value or a
\* crash)
TypedOutcomes(kind, reply) ==
    LET arr == CASE kind = "QueryInt" -> reply.integers
                 [] kind = "QueryFloat" -> reply.floats
                 [] kind = "QueryString" -> reply.strings
                 [] OTHER -> <<0>>
    IN IF arr # <<>> THEN {"ok"} ELSE {"ub_value", "ub_crash"}

----------------------------------------------------------------------------
(* Inputs *)

\* the address string "/p1/p2/..." as tokens
RECURSIVE Addr(_)
Addr(parts) ==
    IF parts = <<>> THEN <<>>
    ELSE <<Slash, parts[1]>> \o Addr(Tail(parts))

Msg(parts, floats, integers, strings) ==
    [hasValue |-> TRUE, address |-> Addr(parts), floats |-> floats,
     integers |-> integers, strings |-> strings, seq |-> 0]

NameAddr == Addr(<<"composition", "layers", "1", "clips", "1", "name">>)
PositionAddr ==
    Addr(<<"composition", "layers", "1", "clips", "1", "transport",
           "position">>)

\* what the transport delivers in SpecIngest
IngestMsgs ==
    {Msg(<<"composition", "layers", "1", "clips", "1", "name">>,
         <<>>, <<>>, <<"Intro">>),
     Msg(<<"composition", "layers", "1", "select">>, <<>>, <<>>, <<>>),
     Msg(<<"composition", "decks", "1", "select">>, <<>>, <<>>, <<>>)}

\* what the transport delivers in SpecQuery
QueryMsgs ==
    {Msg(<<"composition", "layers", "1", "clips", "1", "name">>,
         <<>>, <<>>, <<"Intro">>),
     Msg(<<"composition", "layers", "1", "clips", "1", "transport",
           "position">>, <<1>>, <<>>, <<>>),
     Msg(<<"composition", "decks", "1", "select">>, <<>>, <<>>, <<>>)}

Callers == {"ui", "aux"}
QueryAddrs == {NameAddr, PositionAddr}
\* the "ui" caller uses query() and every typed wrapper, "aux" only query()
QueryKinds(q) ==
    IF q = "ui" THEN {"query", "QueryInt", "QueryFloat", "QueryString"}
    ELSE {"query"}
DeckIds == {1, 2}
PadLayers == {1}
PadColumns == {2}

----------------------------------------------------------------------------
(* Observation of the applied messages: what has been reported about each  *)
(* layer and clip since the tree was last cleared                          *)

Parts(m) == splitOSCPath(m.address)

\* decimal numerals used as ids in addresses
IdTokens == {"0", "1", "2", "3", "101"}

\* last segments that belong to selection messages, not to properties
SelectionVerbs == {"select", "connect", "selected", "connected"}

\* /composition/layers/<L>/clips/<C>/<path...>: the address of clip C of
\* layer L followed by a path
AddressesClip(m) ==
    /\ Len(Parts(m)) >= 6
    /\ Parts(m)[1] = "composition" /\ Parts(m)[2] = "layers"
    /\ Parts(m)[3] \in IdTokens /\ Parts(m)[4] = "clips"
    /\ Parts(m)[5] \in IdTokens

\* /composition/layers/<L>/<path...>: the address of layer L followed by a
\* path that does not lead into its clips
AddressesLayer(m) ==
    /\ Len(Parts(m)) >= 4
    /\ Parts(m)[1] = "composition" /\ Parts(m)[2] = "layers"
    /\ Parts(m)[3] \in IdTokens /\ Parts(m)[4] # "clips"

\* the path below the addressed node, joined as a dictionary key
NodeKey(m) ==
    IF AddressesClip(m) THEN JoinEndpoint(DropFirst(Parts(m), 5))
    ELSE JoinEndpoint(DropFirst(Parts(m), 3))

\* a clip property message / a layer property message
IsClipReport(m) ==
    AddressesClip(m) /\ Back(Parts(m)) \notin SelectionVerbs

IsLayerReport(m) ==
    AddressesLayer(m) /\ Back(Parts(m)) \notin SelectionVerbs

\* <<layer id, clip id (0 for the layer itself), property path>>
ReportKey(m) ==
    IF IsClipReport(m)
    THEN <<Stoi(Parts(m)[3]), Stoi(Parts(m)[5]), NodeKey(m)>>
    ELSE <<Stoi(Parts(m)[3]), 0, NodeKey(m)>>

HasPayload(m) == m.floats # <<>> \/ m.integers # <<>> \/ m.strings # <<>>

NoReport == [floats |-> <<>>, integers |-> <<>>, strings |-> <<>>, at |-> 0]

NothingReported == [k \in {} |-> NoReport]

\* the record after message m was applied at time clk: the payload of the
\* last message that carried one, and the time of the last message
Report(rep, m, clk) ==
    IF ~(IsClipReport(m) \/ IsLayerReport(m)) THEN rep
    ELSE LET k == ReportKey(m)
             old == IF k \in DOMAIN rep THEN rep[k] ELSE NoReport
             new == IF HasPayload(m)
                    THEN [floats |-> m.floats, integers |-> m.integers,
                          strings |-> m.strings, at |-> clk]
                    ELSE [old EXCEPT !.at = clk]
         IN [x \in (DOMAIN rep) \cup {k} |-> IF x = k THEN new ELSE rep[x]]

\* processOSCMessage changes currentDeckId only where it has called clear()
WorkerCleared(t, m, clk) ==
    processOSCMessage(t, m.address, m.floats, m.integers, m.strings,
                      clk).currentDeckId # t.currentDeckId

ReportApplied(rep, t, m, clk) ==
    IF WorkerCleared(t, m, clk) THEN NothingReported ELSE Report(rep, m, clk)

----------------------------------------------------------------------------
(* Initial state: the listener and the tracker right after construction,   *)
(* the worker thread started, no caller inside query()                     *)

Init ==
    /\ layers = NewTracker.layers
    /\ selectedColumnId = NewTracker.selectedColumnId
    /\ selectedLayerId = NewTracker.selectedLayerId
    /\ selectedClipLayerId = NewTracker.selectedClipLayerId
    /\ selectedClipId = NewTracker.selectedClipId
    /\ connectedColumnId = NewTracker.connectedColumnId
    /\ currentDeckId = NewTracker.currentDeckId
    /\ deckInitialized = NewTracker.deckInitialized
    /\ shouldStopProcessing = FALSE
    /\ messageQueue = <<>>
    /\ pendingQueries = EmptyPending
    /\ sent = <<>>
    /\ wpc = "poll"
    /\ wmsg = EmptyMessage
    /\ pc = [q \in Callers |-> "idle"]
    /\ qaddr = [q \in Callers |-> <<>>]
    /\ qkind = [q \in Callers |-> "none"]
    /\ outcome = [q \in Callers |-> "none"]
    /\ result = [q \in Callers |-> EmptyMessage]
    /\ now = 0
    /\ delivered = <<>>
    /\ enqueued = {}
    /\ applied = <<>>
    /\ qseen = [q \in Callers |-> 0]
    /\ qsolo = [q \in Callers |-> FALSE]
    /\ actor = "init"
    /\ prev = NewTracker
    /\ lastMsg = EmptyMessage
    /\ clearMark = [delivered |-> 0, applied |-> 0]
    /\ reported = NothingReported

\* write a tracker value back to the tracker's fields and the queue
SetTracker(t) ==
    /\ layers' = t.layers
    /\ selectedColumnId' = t.selectedColumnId
    /\ selectedLayerId' = t.selectedLayerId
    /\ selectedClipLayerId' = t.selectedClipLayerId
    /\ selectedClipId' = t.selectedClipId
    /\ connectedColumnId' = t.connectedColumnId
    /\ currentDeckId' = t.currentDeckId
    /\ deckInitialized' = t.deckInitialized
    /\ messageQueue' = t.messageQueue

----------------------------------------------------------------------------
(* Transport thread *)

\* ResolumeOSCListener::ProcessMessage for one inbound message
Deliver(m) ==
    /\ LET msg == [m EXCEPT !.seq = Len(delivered) + 1]
           r == ProcessMessage(pendingQueries, messageQueue, msg)
       IN /\ pendingQueries' = r.pendingQueries
          /\ messageQueue' = r.messageQueue
          /\ delivered' = Append(delivered, msg)
          /\ enqueued' = IF r.queued THEN enqueued \cup {msg.seq}
                         ELSE enqueued
          /\ qseen' = [q \in Callers |->
                         IF /\ pc[q] = "waiting"
                            /\ qaddr[q] = msg.address
                            /\ qseen[q] = 0
                         THEN msg.seq ELSE qseen[q]]
    /\ UNCHANGED <<trackerVars, sent, workerVars, callerVars, now, applied,
                   qsolo, actor, prev, lastMsg, clearMark, reported>>

----------------------------------------------------------------------------
(* Worker thread: messageProcessingLoop *)

\* variant: the worker takes no message while a caller is inside the wait
WorkerDequeue_WaitsForQueries ==
    /\ wpc = "poll"
    /\ ~shouldStopProcessing
    /\ messageQueue # <<>>
    /\ \A q \in Callers : pc[q] # "waiting"
    /\ LET r == getNextMessage(messageQueue)
       IN /\ wmsg' = r.message
          /\ messageQueue' = r.messageQueue
    /\ wpc' = "process"
    /\ UNCHANGED <<trackerVars, pendingQueries, sent, shouldStopProcessing,
                   callerVars, now, delivered, enqueued, applied, qseen,
                   qsolo, actor, prev, lastMsg, clearMark, reported>>

\* "auto message = oscListener->getNextMessage()" returning a message
WorkerDequeue ==
    /\ wpc = "poll"
    /\ ~shouldStopProcessing
    /\ messageQueue # <<>>
    /\ LET r == getNextMessage(messageQueue)
       IN /\ wmsg' = r.message
          /\ messageQueue' = r.messageQueue
    /\ wpc' = "process"
    /\ UNCHANGED <<trackerVars, pendingQueries, sent, shouldStopProcessing,
                   callerVars, now, delivered, enqueued, applied, qseen,
                   qsolo, actor, prev, lastMsg, clearMark, reported>>

\* "processOSCMessage(message->address, ...)" on the dequeued message
WorkerApply ==
    /\ wpc = "process"
    /\ SetTracker(processOSCMessage(Tracker, wmsg.address, wmsg.floats,
                                    wmsg.integers, wmsg.strings, now))
    /\ wpc' = "poll"
    /\ wmsg' = EmptyMessage
    /\ applied' = Append(applied, wmsg.seq)
    /\ prev' = Tracker
    /\ lastMsg' = wmsg
    /\ actor' = "worker"
    /\ reported' = ReportApplied(reported, Tracker, wmsg, now)
    /\ UNCHANGED <<pendingQueries, sent, shouldStopProcessing, callerVars,
                   now, delivered, enqueued, qseen, qsolo, clearMark>>

----------------------------------------------------------------------------
(* Caller threads: query and the typed wrappers *)

Outstanding == {q \in Callers : pc[q] = "waiting"}

\* variant: the probe leaves and the caller waits with the address not yet
\* registered
QueryStart_ProbeBeforeRegister(q, address, kind) ==
    /\ pc[q] = "idle"
    /\ Len(sent) < MaxQueries
    /\ pendingQueries' = pendingQueries
    /\ sent' = Append(sent, [address |-> address, value |-> "?"])
    /\ pc' = [pc EXCEPT ![q] = "waiting"]
    /\ qaddr' = [qaddr EXCEPT ![q] = address]
    /\ qkind' = [qkind EXCEPT ![q] = kind]
    /\ outcome' = [outcome EXCEPT ![q] = "none"]
    /\ result' = [result EXCEPT ![q] = EmptyMessage]
    /\ qseen' = [qseen EXCEPT ![q] = 0]
    /\ qsolo' = [p \in Callers |->
                    IF p = q THEN Outstanding = {} ELSE FALSE]
    /\ UNCHANGED <<trackerVars, messageQueue, workerVars, now, delivered,
                   enqueued, applied, actor, prev, lastMsg, clearMark, reported>>

\* query() from the lock to the first evaluation of the wait predicate:
\* register the address, send the probe, start waiting (a listener with an
\* OSCSender set; without one query() throws before it touches any state)
QueryStart(q, address, kind) ==
    /\ pc[q] = "idle"
    /\ Len(sent) < MaxQueries
    /\ pendingQueries' = RegisterQuery(pendingQueries, address)
    /\ sent' = Append(sent, [address |-> address, value |-> "?"])
    /\ pc' = [pc EXCEPT ![q] = "waiting"]
    /\ qaddr' = [qaddr EXCEPT ![q] = address]
    /\ qkind' = [qkind EXCEPT ![q] = kind]
    /\ outcome' = [outcome EXCEPT ![q] = "none"]
    /\ result' = [result EXCEPT ![q] = EmptyMessage]
    /\ qseen' = [qseen EXCEPT ![q] = 0]
    /\ qsolo' = [p \in Callers |->
                    IF p = q THEN Outstanding = {} ELSE FALSE]
    /\ UNCHANGED <<trackerVars, messageQueue, workerVars, now, delivered,
                   enqueued, applied, actor, prev, lastMsg, clearMark, reported>>

\* a wake-up inside wait_for that finds no value: evaluating
\* "pendingQueries[address]" inserts a default entry when none is there
QueryWake(q) ==
    /\ pc[q] = "waiting"
    /\ qaddr[q] \notin DOMAIN pendingQueries
    /\ pendingQueries' = PendingPut(pendingQueries, qaddr[q], EmptyMessage)
    /\ UNCHANGED <<trackerVars, messageQueue, sent, workerVars, callerVars,
                   now, delivered, enqueued, applied, qseen, qsolo, actor, prev,
                   lastMsg, clearMark, reported>>

\* wait_for returns true: copy the entry, erase it, return (through the
\* typed wrapper when one was called)
QueryReceive(q) ==
    /\ pc[q] = "waiting"
    /\ PendingHasValue(pendingQueries, qaddr[q])
    /\ result' = [result EXCEPT ![q] = pendingQueries[qaddr[q]]]
    /\ pendingQueries' = PendingErase(pendingQueries, qaddr[q])
    /\ \E o \in TypedOutcomes(qkind[q], pendingQueries[qaddr[q]]) :
          outcome' = [outcome EXCEPT ![q] = o]
    /\ pc' = [pc EXCEPT ![q] = "done"]
    /\ UNCHANGED <<trackerVars, messageQueue, sent, workerVars, qaddr, qkind,
                   now, delivered, enqueued, applied, qseen, qsolo, actor, prev,
                   lastMsg, clearMark, reported>>

\* wait_for times out with the predicate false: erase the entry and throw
\* "Query timeout for address: ..."
QueryTimeout(q) ==
    /\ pc[q] = "waiting"
    /\ ~PendingHasValue(pendingQueries, qaddr[q])
    /\ pendingQueries' = PendingErase(pendingQueries, qaddr[q])
    /\ outcome' = [outcome EXCEPT ![q] = "timeout"]
    /\ pc' = [pc EXCEPT ![q] = "done"]
    /\ UNCHANGED <<trackerVars, messageQueue, sent, workerVars, qaddr, qkind,
                   result, now, delivered, enqueued, applied, qseen, qsolo,
                   actor, prev, lastMsg, clearMark, reported>>

\* the caller has the value or the exception and goes on
QueryReturn(q) ==
    /\ pc[q] = "done"
    /\ pc' = [pc EXCEPT ![q] = "idle"]
    /\ qaddr' = [qaddr EXCEPT ![q] = <<>>]
    /\ qkind' = [qkind EXCEPT ![q] = "none"]
    /\ outcome' = [outcome EXCEPT ![q] = "none"]
    /\ result' = [result EXCEPT ![q] = EmptyMessage]
    /\ qseen' = [qseen EXCEPT ![q] = 0]
    /\ qsolo' = [qsolo EXCEPT ![q] = FALSE]
    /\ UNCHANGED <<trackerVars, listenerVars, workerVars, now, delivered,
                   enqueued, applied, actor, prev, lastMsg, clearMark, reported>>

----------------------------------------------------------------------------
(* Control operations and the UI, called from threads other than the worker *)

\* ResolumeTracker::clear
ExternalClear ==
    /\ SetTracker(clear(Tracker))
    /\ prev' = Tracker
    /\ clearMark' = [delivered |-> Len(delivered), applied |-> Len(applied)]
    /\ actor' = "clear"
    /\ reported' = NothingReported
    /\ UNCHANGED <<pendingQueries, sent, workerVars, callerVars, now,
                   delivered, enqueued, applied, qseen, qsolo, lastMsg>>

\* ResolumeTracker::setCurrentDeck
ExternalSetCurrentDeck(deckId) ==
    /\ SetTracker(setCurrentDeck(Tracker, deckId))
    /\ prev' = Tracker
    /\ clearMark' = IF deckInitialized /\ deckId # currentDeckId
                    THEN [delivered |-> Len(delivered),
                          applied |-> Len(applied)]
                    ELSE clearMark
    /\ actor' = "setCurrentDeck"
    /\ reported' = IF deckInitialized /\ deckId # currentDeckId
                   THEN NothingReported ELSE reported
    /\ UNCHANGED <<pendingQueries, sent, workerVars, callerVars, now,
                   delivered, enqueued, applied, qseen, qsolo, lastMsg>>

\* PushUI::handlePadPress in Triggering mode: after sending the connect
\* message, "layer->timeoutAllExcept(resolumeColumn)" on the tracker's layer
PadPress(resolumeLayer, resolumeColumn) ==
    /\ HasLayer(Tracker, resolumeLayer)
    /\ layers' = [layers EXCEPT ![resolumeLayer] =
                    timeoutAllExcept(@, resolumeColumn)]
    /\ prev' = Tracker
    /\ actor' = "ui"
    /\ UNCHANGED <<selectedColumnId, selectedLayerId, selectedClipLayerId,
                   selectedClipId, connectedColumnId, currentDeckId,
                   deckInitialized, listenerVars, workerVars, callerVars, now,
                   delivered, enqueued, applied, qseen, qsolo, lastMsg,
                   clearMark, reported>>

----------------------------------------------------------------------------
(* Ingestion: transport, worker, control operations and UI *)

NextIngest ==
    \/ \E m \in IngestMsgs : Len(delivered) < MaxMsgs /\ Deliver(m)
    \/ WorkerDequeue
    \/ WorkerApply
    \/ ExternalClear
    \/ \E d \in DeckIds : ExternalSetCurrentDeck(d)
    \/ \E l \in PadLayers, c \in PadColumns : PadPress(l, c)

SpecIngest == Init /\ [][NextIngest]_vars

----------------------------------------------------------------------------
(* Query correlation: transport, worker and callers *)

NextQuery ==
    \/ \E m \in QueryMsgs : Len(delivered) < MaxReplies /\ Deliver(m)
    \/ WorkerDequeue
    \/ WorkerApply
    \/ \E q \in Callers, a \in QueryAddrs :
          \E k \in QueryKinds(q) : QueryStart(q, a, k)
    \/ \E q \in Callers : QueryWake(q)
    \/ \E q \in Callers : QueryReceive(q)
    \/ \E q \in Callers : QueryTimeout(q)
    \/ \E q \in Callers : QueryReturn(q)

SpecQuery == Init /\ [][NextQuery]_vars

----------------------------------------------------------------------------
(* Routing: the worker applies one message after another *)

ClipProp(layer, clip, path, floats, integers, strings) ==
    Msg(<<"composition", "layers", layer, "clips", clip>> \o path,
        floats, integers, strings)

\* what the worker is given in SpecRouter
RouterMsgs ==
    {\* properties and the name of layer 2 / clip 2
     ClipProp("2", "2", <<"transport", "position">>, <<1>>, <<>>, <<>>),
     ClipProp("2", "2", <<"video", "opacity">>, <<2>>, <<>>, <<>>),
     ClipProp("2", "2", <<"video", "width">>, <<>>, <<3>>, <<>>),
     ClipProp("2", "2", <<"transport", "speed">>, <<2>>, <<>>, <<>>),
     ClipProp("2", "2", <<"name">>, <<>>, <<>>, <<"Foo">>),
     \* a name that is the empty string, and a name for a clip of layer 3
     ClipProp("2", "2", <<"name">>, <<>>, <<>>, <<"">>),
     ClipProp("3", "1", <<"name">>, <<>>, <<>>, <<"Bar">>),
     \* deck selects: no payload, integer 1, integer 0
     Msg(<<"composition", "decks", "1", "select">>, <<>>, <<>>, <<>>),
     Msg(<<"composition", "decks", "2", "select">>, <<>>, <<>>, <<>>),
     Msg(<<"composition", "decks", "2", "select">>, <<>>, <<1>>, <<>>),
     Msg(<<"composition", "decks", "1", "select">>, <<>>, <<0>>, <<>>),
     \* column select / connect
     Msg(<<"composition", "columns", "1", "select">>, <<>>, <<>>, <<>>),
     Msg(<<"composition", "columns", "2", "select">>, <<>>, <<0>>, <<>>),
     Msg(<<"composition", "columns", "1", "connect">>, <<>>, <<1>>, <<>>),
     Msg(<<"composition", "columns", "2", "connect">>, <<2>>, <<>>, <<>>),
     Msg(<<"composition", "columns", "3", "connect">>, <<>>, <<0>>, <<>>),
     Msg(<<"composition", "columns", "3", "connect">>, <<1>>, <<>>, <<>>),
     \* layer select
     Msg(<<"composition", "layers", "1", "select">>, <<>>, <<1>>, <<>>),
     Msg(<<"composition", "layers", "2", "select">>, <<>>, <<>>, <<>>),
     \* clip select / connect
     ClipProp("1", "1", <<"select">>, <<>>, <<1>>, <<>>),
     ClipProp("2", "1", <<"select">>, <<>>, <<>>, <<>>),
     ClipProp("1", "2", <<"connect">>, <<>>, <<1>>, <<>>),
     ClipProp("1", "2", <<"connect">>, <<>>, <<0>>, <<>>)}

\* one turn of messageProcessingLoop on message m
RouterApply(m) ==
    /\ Len(applied) < MaxSteps
    /\ SetTracker(processOSCMessage(Tracker, m.address, m.floats, m.integers,
                                    m.strings, now))
    /\ applied' = Append(applied, Len(applied) + 1)
    /\ prev' = Tracker
    /\ lastMsg' = m
    /\ actor' = "worker"
    /\ reported' = ReportApplied(reported, Tracker, m, now)
    /\ UNCHANGED <<pendingQueries, sent, workerVars, callerVars, now,
                   delivered, enqueued, qseen, qsolo, clearMark>>

NextRouter == \E m \in RouterMsgs : RouterApply(m)

SpecRouter == Init /\ [][NextRouter]_vars

----------------------------------------------------------------------------
(* Routing of addresses outside the recognised shapes: the worker applies  *)
(* unrecognised select/connect shapes and malformed addresses              *)

\* what the worker is given in SpecShapes
ShapeMsgs ==
    {\* a named clip and a recognised layer select
     ClipProp("1", "2", <<"name">>, <<>>, <<>>, <<"Foo">>),
     Msg(<<"composition", "layers", "1", "select">>, <<>>, <<>>, <<>>),
     \* select / connect / selected / connected outside the recognised shapes
     Msg(<<"composition", "layers", "1", "video", "select">>,
         <<>>, <<1>>, <<>>),
     ClipProp("1", "2", <<"transport", "select">>, <<>>, <<1>>, <<>>),
     Msg(<<"composition", "columns", "1", "foo", "select">>,
         <<>>, <<>>, <<>>),
     ClipProp("1", "2", <<"selected">>, <<>>, <<1>>, <<>>),
     ClipProp("1", "2", <<"video", "connect">>, <<>>, <<0>>, <<>>),
     Msg(<<"composition", "layers", "2", "connected">>, <<2>>, <<>>, <<>>),
     \* another root
     Msg(<<"compositions", "layers", "1", "clips", "1", "name">>,
         <<>>, <<>>, <<"X">>),
     Msg(<<"foo", "layers", "1", "clips", "1", "name">>,
         <<>>, <<>>, <<"X">>),
     \* ids that are no numbers
     Msg(<<"composition", "layers", "abc", "clips", "1", "name">>,
         <<>>, <<>>, <<"X">>),
     ClipProp("2", "abc", <<"name">>, <<>>, <<>>, <<"X">>),
     Msg(<<"composition", "columns", "abc", "select">>, <<>>, <<>>, <<>>),
     Msg(<<"composition", "decks", "abc", "select">>, <<>>, <<>>, <<>>)}

NextShapes == \E m \in ShapeMsgs : RouterApply(m)

SpecShapes == Init /\ [][NextShapes]_vars

----------------------------------------------------------------------------
(* Playing state: the worker applies transport messages while the clock    *)
(* advances and the UI handles pad presses                                 *)

\* what the worker is given in SpecClock
ClockMsgs ==
    {\* positions 0.5 and 0.0 and the integer 1 for clip 1 of layer 1
     ClipProp("1", "1", <<"transport", "position">>, <<1>>, <<>>, <<>>),
     ClipProp("1", "1", <<"transport", "position">>, <<0>>, <<>>, <<>>),
     ClipProp("1", "1", <<"transport", "position">>, <<>>, <<1>>, <<>>),
     \* a position message without arguments
     ClipProp("1", "1", <<"transport", "position">>, <<>>, <<>>, <<>>),
     \* position 0.5 for clip 2 of layer 1
     ClipProp("1", "2", <<"transport", "position">>, <<1>>, <<>>, <<>>),
     \* another property, and a deck change
     ClipProp("1", "1", <<"transport", "speed">>, <<2>>, <<>>, <<>>),
     Msg(<<"composition", "decks", "1", "select">>, <<>>, <<>>, <<>>)}

\* steady_clock advances by half the recency window of Clip::playing
Tick ==
    /\ now < MaxTicks * (PlayingWindowMs \div 2)
    /\ now' = now + PlayingWindowMs \div 2
    /\ UNCHANGED <<trackerVars, listenerVars, workerVars, callerVars,
                   histVars>>

NextClock ==
    \/ \E m \in ClockMsgs : RouterApply(m)
    \/ Tick
    \/ \E l \in PadLayers, c \in PadColumns : PadPress(l, c)

SpecClock == Init /\ [][NextClock]_vars

----------------------------------------------------------------------------
(* Growth of the tree: the worker applies property, name and effect        *)
(* messages for low, high and very high ids                                *)

\* what the worker is given in SpecTree
TreeMsgs ==
    {\* clip 1 of layer 1: a property, a name, the empty name, two effects
     ClipProp("1", "1", <<"video", "opacity">>, <<2>>, <<>>, <<>>),
     ClipProp("1", "1", <<"name">>, <<>>, <<>>, <<"A">>),
     ClipProp("1", "1", <<"name">>, <<>>, <<>>, <<"">>),
     ClipProp("1", "1", <<"video", "effects", "blur", "amount">>,
              <<1>>, <<>>, <<>>),
     ClipProp("1", "1", <<"video", "effects", "glow", "amount">>,
              <<>>, <<1>>, <<>>),
     \* layer 1 itself: a property and an effect
     Msg(<<"composition", "layers", "1", "video", "opacity">>,
         <<2>>, <<>>, <<>>),
     Msg(<<"composition", "layers", "1", "video", "effects", "blur",
           "amount">>, <<1>>, <<>>, <<>>),
     \* a higher clip id and a higher layer id
     ClipProp("1", "3", <<"name">>, <<>>, <<>>, <<"C">>),
     ClipProp("3", "1", <<"transport", "position">>, <<1>>, <<>>, <<>>),
     \* ids above 100
     ClipProp("101", "1", <<"name">>, <<>>, <<>>, <<"X">>),
     ClipProp("2", "101", <<"name">>, <<>>, <<>>, <<"Y">>),
     \* a deck change
     Msg(<<"composition", "decks", "1", "select">>, <<>>, <<>>, <<>>)}

NextTree == \E m \in TreeMsgs : RouterApply(m)

SpecTree == Init /\ [][NextTree]_vars

----------------------------------------------------------------------------
(* Payloads: the worker applies property messages for clip 1 of layer 1    *)
(* with every combination of empty and populated typed arrays              *)

PayloadPaths == {<<"video", "opacity">>, <<"transport", "position">>}
PayloadFloats == {<<>>, <<1>>, <<2, 1>>}
PayloadInts == {<<>>, <<3, 0>>}
PayloadStrings == {<<>>, <<"y", "x">>}

\* what the worker is given in SpecPayload
PayloadMsgs ==
    {ClipProp("1", "1", p, f, i, s) :
        p \in PayloadPaths, f \in PayloadFloats, i \in PayloadInts,
        s \in PayloadStrings}

NextPayload == \E m \in PayloadMsgs : RouterApply(m)

SpecPayload == Init /\ [][NextPayload]_vars

----------------------------------------------------------------------------
(* The pad: the worker fills clips 1 and 2 of layer 1 while the UI presses *)
(* the pad of clip 2                                                       *)

\* what the worker is given in SpecPad
PadMsgs ==
    {ClipProp("1", "1", <<"video", "opacity">>, <<2>>, <<>>, <<>>),
     ClipProp("1", "1", <<"video", "width">>, <<>>, <<3>>, <<>>),
     ClipProp("1", "1", <<"video", "height">>, <<>>, <<2>>, <<>>),
     ClipProp("1", "1", <<"transport", "position">>, <<1>>, <<>>, <<>>),
     ClipProp("1", "1", <<"name">>, <<>>, <<>>, <<"A">>),
     ClipProp("1", "2", <<"transport", "position">>, <<1>>, <<>>, <<>>)}

NextPad ==
    \/ \E m \in PadMsgs : RouterApply(m)
    \/ \E l \in PadLayers, c \in PadColumns : PadPress(l, c)

SpecPad == Init /\ [][NextPad]_vars

----------------------------------------------------------------------------
(* The worker loop step by step, with shutdown: the transport delivers,    *)
(* the worker tests the stop flag, takes a message or sleeps, applies,     *)
(* another thread calls clear(), and the destructor sets the stop flag     *)

\* variant: the loop goes on whatever the flag says
WorkerCheck_IgnoresFlag ==
    /\ wpc = "poll"
    /\ wpc' = "checked"
    /\ UNCHANGED <<trackerVars, listenerVars, wmsg, shouldStopProcessing,
                   callerVars, now, histVars>>

\* "while (!shouldStopProcessing.load())" found the flag clear
WorkerCheck ==
    /\ wpc = "poll"
    /\ ~shouldStopProcessing
    /\ wpc' = "checked"
    /\ UNCHANGED <<trackerVars, listenerVars, wmsg, shouldStopProcessing,
                   callerVars, now, histVars>>

\* "auto message = oscListener->getNextMessage()" with a value
WorkerTake ==
    /\ wpc = "checked"
    /\ messageQueue # <<>>
    /\ LET r == getNextMessage(messageQueue)
       IN /\ wmsg' = r.message
          /\ messageQueue' = r.messageQueue
    /\ wpc' = "process"
    /\ UNCHANGED <<trackerVars, pendingQueries, sent, shouldStopProcessing,
                   callerVars, now, histVars>>

\* getNextMessage() returned std::nullopt: sleep 1 ms and loop
WorkerSleep ==
    /\ wpc = "checked"
    /\ messageQueue = <<>>
    /\ wpc' = "poll"
    /\ UNCHANGED <<trackerVars, listenerVars, wmsg, shouldStopProcessing,
                   callerVars, now, histVars>>

\* the loop condition found the flag set: messageProcessingLoop returns
WorkerExit ==
    /\ wpc = "poll"
    /\ shouldStopProcessing
    /\ wpc' = "exited"
    /\ UNCHANGED <<trackerVars, listenerVars, wmsg, shouldStopProcessing,
                   callerVars, now, histVars>>

\* ~ResolumeTracker: "shouldStopProcessing.store(true)", then the join
Stop ==
    /\ ~shouldStopProcessing
    /\ shouldStopProcessing' = TRUE
    /\ UNCHANGED <<trackerVars, listenerVars, wpc, wmsg, callerVars, now,
                   histVars>>

\* what the transport delivers in SpecLive
LiveMsgs ==
    {Msg(<<"composition", "layers", "1", "clips", "1", "name">>,
         <<>>, <<>>, <<"Intro">>),
     Msg(<<"composition", "decks", "1", "select">>, <<>>, <<>>, <<>>)}

NextLive ==
    \/ \E m \in LiveMsgs : Len(delivered) < MaxMsgs /\ Deliver(m)
    \/ WorkerCheck
    \/ WorkerTake
    \/ WorkerSleep
    \/ WorkerApply
    \/ WorkerExit
    \/ ExternalClear
    \/ Stop

\* the worker thread is scheduled fairly
WorkerFairness ==
    /\ WF_vars(WorkerCheck)
    /\ WF_vars(WorkerTake)
    /\ WF_vars(WorkerSleep)
    /\ WF_vars(WorkerApply)
    /\ WF_vars(WorkerExit)

SpecLive == Init /\ [][NextLive]_vars /\ WorkerFairness

----------------------------------------------------------------------------
(* Vocabulary of the properties *)

IsDeckSelectMsg(m) ==
    /\ Len(Parts(m)) = 4
    /\ Parts(m)[1] = "composition" /\ Parts(m)[2] = "decks"
    /\ Parts(m)[3] \in IdTokens /\ Parts(m)[4] = "select"

IsColumnMsg(m, verb) ==
    /\ Len(Parts(m)) = 4
    /\ Parts(m)[1] = "composition" /\ Parts(m)[2] = "columns"
    /\ Parts(m)[3] \in IdTokens /\ Parts(m)[4] = verb

IsLayerSelectMsg(m) ==
    /\ Len(Parts(m)) = 4
    /\ Parts(m)[1] = "composition" /\ Parts(m)[2] = "layers"
    /\ Parts(m)[3] \in IdTokens /\ Parts(m)[4] = "select"

IsClipMsg(m, verb) ==
    /\ Len(Parts(m)) = 6
    /\ Parts(m)[1] = "composition" /\ Parts(m)[2] = "layers"
    /\ Parts(m)[3] \in IdTokens /\ Parts(m)[4] = "clips"
    /\ Parts(m)[5] \in IdTokens /\ Parts(m)[6] = verb

\* first id and second id of a recognised address
Id1(m) == Stoi(Parts(m)[3])
Id2(m) == Stoi(Parts(m)[5])

\* "asserting payload (int 1 or float 1.0)"
PayloadAsserts(m) ==
    \/ (m.integers # <<>> /\ m.integers[1] = 1)
    \/ (m.floats # <<>> /\ m.floats[1] = 2)

Selection(t) ==
    [selectedColumnId |-> t.selectedColumnId,
     connectedColumnId |-> t.connectedColumnId,
     selectedLayerId |-> t.selectedLayerId,
     selectedClipLayerId |-> t.selectedClipLayerId,
     selectedClipId |-> t.selectedClipId]

NoSelection ==
    [selectedColumnId |-> 0, connectedColumnId |-> 0, selectedLayerId |-> 0,
     selectedClipLayerId |-> 0, selectedClipId |-> 0]

\* layer and clip ids the accessors are asked about
ProbeIds == 0..3

SomeClipExists(t) ==
    \E l \in ProbeIds, c \in ProbeIds : doesClipExist(t, c, l)

\* selection scalars, current deck and tree of a tracker value
Observable(t) ==
    [selection |-> Selection(t), currentDeckId |-> t.currentDeckId,
     layers |-> t.layers]

----------------------------------------------------------------------------
(* Properties of the router (SpecRouter) *)

\* C1: after the worker has applied messages that make doesClipExist(C,L)
\* true and then applies a /composition/decks/<d>/select message whose d
\* differs from currentDeckId, getLayerCount() = 0, every selection scalar
\* is 0, doesClipExist(C,L) is false and currentDeckId = d.
C1_DeckChangeInvalidation ==
    (/\ actor = "worker"
     /\ IsDeckSelectMsg(lastMsg)
     /\ Id1(lastMsg) # prev.currentDeckId
     /\ SomeClipExists(prev))
    => (/\ getLayerCount(Tracker) = 0
        /\ Selection(Tracker) = NoSelection
        /\ ~SomeClipExists(Tracker)
        /\ currentDeckId = Id1(lastMsg))

\* C9: a column select sets selectedColumnId, a column connect with an
\* asserting payload sets connectedColumnId and with a non-asserting payload
\* changes nothing, a layer select sets selectedLayerId, a clip select sets
\* (selectedClipLayerId, selectedClipId); each leaves every other selection
\* scalar as it was.
C9_SelectionTransitions ==
    actor = "worker" =>
      /\ IsColumnMsg(lastMsg, "select") =>
            Selection(Tracker) =
              [Selection(prev) EXCEPT !.selectedColumnId = Id1(lastMsg)]
      /\ (IsColumnMsg(lastMsg, "connect") /\ PayloadAsserts(lastMsg)) =>
            Selection(Tracker) =
              [Selection(prev) EXCEPT !.connectedColumnId = Id1(lastMsg)]
      /\ (IsColumnMsg(lastMsg, "connect") /\ ~PayloadAsserts(lastMsg)) =>
            Selection(Tracker) = Selection(prev)
      /\ IsLayerSelectMsg(lastMsg) =>
            Selection(Tracker) =
              [Selection(prev) EXCEPT !.selectedLayerId = Id1(lastMsg)]
      /\ IsClipMsg(lastMsg, "select") =>
            Selection(Tracker) =
              [Selection(prev) EXCEPT !.selectedClipLayerId = Id1(lastMsg),
                                      !.selectedClipId = Id2(lastMsg)]

\* the worker has just applied a clip select that changed the selected clip
\* while a column and a layer were selected and a column connected
C9_Witness ==
    /\ actor = "worker"
    /\ IsClipMsg(lastMsg, "select")
    /\ selectedClipLayerId = Id1(lastMsg) /\ selectedClipId = Id2(lastMsg)
    /\ <<prev.selectedClipLayerId, prev.selectedClipId>> #
          <<selectedClipLayerId, selectedClipId>>
    /\ selectedColumnId # 0 /\ connectedColumnId # 0 /\ selectedLayerId # 0

\* the select and connect messages of the input alphabet
SelectConnectMsgs ==
    {m \in RouterMsgs : Back(Parts(m)) \in {"select", "connect"}}

\* C10: in every reachable state, applying a select or connect message twice
\* in a row leaves selection scalars, currentDeckId and tree exactly as
\* applying it once does.
C10_IdempotentRouting ==
    \A m \in SelectConnectMsgs :
        LET once == processOSCMessage(Tracker, m.address, m.floats,
                                      m.integers, m.strings, now)
            twice == processOSCMessage(once, m.address, m.floats,
                                       m.integers, m.strings, now)
        IN Observable(twice) = Observable(once)

\* the worker has just applied a select or connect message that changed the
\* tracker, and the tree is populated
C10_Witness ==
    /\ actor = "worker"
    /\ lastMsg \in SelectConnectMsgs
    /\ Observable(Tracker) # Observable(prev)
    /\ layers # <<>>

\* C11: a message applied by the worker that is no clear() and no deck
\* change never makes getLayerCount() or getColumnCount() smaller, whatever
\* its address and payload (clip name messages included).
C11_LazyGrowthMonotone ==
    (actor = "worker" /\ currentDeckId = prev.currentDeckId)
    => /\ getLayerCount(Tracker) >= getLayerCount(prev)
       /\ getColumnCount(Tracker) >= getColumnCount(prev)

\* number of distinct properties (the name included) reported with a payload
\* for clip c of layer l since the last clear
ReportedCount(l, c) ==
    Cardinality({k \in DOMAIN reported :
                    /\ k[1] = l /\ k[2] = c
                    /\ reported[k] # NoReport
                    /\ \/ reported[k].floats # <<>>
                       \/ reported[k].integers # <<>>
                       \/ reported[k].strings # <<>>})

\* C13: doesClipExist(col, layer) is true exactly when more than 3 distinct
\* properties (the name counting as one) have been reported for that clip
\* since the last clear, and false for a clip or layer never addressed.
C13_ExistenceThreshold ==
    \A l \in ProbeIds, c \in ProbeIds :
        doesClipExist(Tracker, c, l)
        <=> (c # 0 /\ ReportedCount(l, c) > ExistsThreshold)

ClipAnswers(t, clk) ==
    [l \in ProbeIds, c \in ProbeIds |->
        <<doesClipExist(t, c, l), isClipPlaying(t, c, l, clk)>>]

\* C16: applying /composition/layers/<id>/clips/<cid>/connect with any
\* payload leaves the selection scalars, the tree and the answers of
\* doesClipExist and isClipPlaying for every clip as they were.
C16_ClipConnectStoresNothing ==
    (actor = "worker" /\ IsClipMsg(lastMsg, "connect"))
    => /\ Observable(Tracker) = Observable(prev)
       /\ ClipAnswers(Tracker, now) = ClipAnswers(prev, now)

\* no deck has been adopted or set yet
NoDeckYet(t) == ~t.deckInitialized /\ t.currentDeckId = 0

\* no payload at all, or the integer 1
NoneOrTruthy(m) ==
    \/ ~HasPayload(m)
    \/ (m.integers # <<>> /\ m.integers[1] = 1)

\* C17: a /composition/decks/<id>/select message with no payload or with the
\* integer 1 clears the tree and the selection and makes <id> the current
\* deck whenever <id> differs from currentDeckId or no deck was initialized.
C17_DeckSelectTrigger ==
    (/\ actor = "worker"
     /\ IsDeckSelectMsg(lastMsg)
     /\ NoneOrTruthy(lastMsg)
     /\ (Id1(lastMsg) # prev.currentDeckId \/ NoDeckYet(prev)))
    => /\ getLayerCount(Tracker) = 0
       /\ Selection(Tracker) = NoSelection
       /\ currentDeckId = Id1(lastMsg)

\* ids the accessors are asked about, 0 and a negative one included
AccessorIds == (0 - 1)..4

\* layer l, or clip c of layer l, is not in the tree
NoSuchLayer(t, l) == l < 1 \/ l > Len(t.layers)
NoSuchClip(t, c, l) ==
    NoSuchLayer(t, l) \/ c < 1 \/ c > Len(t.layers[l].clips)

\* doesClipExist, isClipPlaying and doesLayerExist answer false for every id
\* that is 0, negative or beyond the tree
TreeAccessorsTolerant ==
    \A l \in AccessorIds :
        /\ NoSuchLayer(Tracker, l) => ~doesLayerExist(Tracker, l)
        /\ \A c \in AccessorIds :
              NoSuchClip(Tracker, c, l)
              => /\ ~doesClipExist(Tracker, c, l)
                 /\ ~isClipPlaying(Tracker, c, l, now)

\* C22: in every reachable state doesClipExist, isClipPlaying,
\* doesLayerExist and isColumnConnected return false for any id that is 0,
\* negative or beyond what the tree holds.
C22_AccessorsTolerant ==
    /\ TreeAccessorsTolerant
    /\ \A c \in AccessorIds : c < 1 => ~isColumnConnected(Tracker, c)

\* the largest index of a clip with a name, over all layers; 0 without one
MaxNamedIndex(t) ==
    LET idx == UNION {NamedClips(t.layers[i]) : i \in 1..Len(t.layers)}
    IN IF idx = {} THEN 0 ELSE CHOOSE c \in idx : \A d \in idx : d <= c

\* C23: getColumnCount() equals the largest clip index of a populated
\* (named) clip over all layers, and 0 when no clip is populated.
C23_ColumnCountIsMaxIndex ==
    getColumnCount(Tracker) = MaxNamedIndex(Tracker)

\* a column select or connect, a layer select, a clip select, or a select
\* of the deck that is current in t
RecognizedSelect(m, t) ==
    \/ IsColumnMsg(m, "select") \/ IsColumnMsg(m, "connect")
    \/ IsLayerSelectMsg(m)
    \/ IsClipMsg(m, "select")
    \/ (IsDeckSelectMsg(m) /\ Id1(m) = t.currentDeckId)

\* C34: after the worker has applied a column select or connect, a layer
\* select, a clip select or a select of the current deck, the tree is what it
\* was: same layers, clips, effects and properties, hence the same
\* getLayerCount(), getColumnCount(), doesClipExist and doesLayerExist.
C34_SelectLeavesTree ==
    (actor = "worker" /\ RecognizedSelect(lastMsg, prev))
    => /\ layers = prev.layers
       /\ getLayerCount(Tracker) = getLayerCount(prev)
       /\ getColumnCount(Tracker) = getColumnCount(prev)
       /\ \A l \in ProbeIds :
             /\ doesLayerExist(Tracker, l) = doesLayerExist(prev, l)
             /\ \A c \in ProbeIds :
                   doesClipExist(Tracker, c, l) = doesClipExist(prev, c, l)

\* with layers 1 and 2 in the tree and no clip in layer 1, the worker has
\* applied the select of clip 1 of layer 1: the clip is selected and still
\* not there
C34_Witness ==
    /\ actor = "worker" /\ IsClipMsg(lastMsg, "select")
    /\ Id1(lastMsg) = 1 /\ Id2(lastMsg) = 1
    /\ Len(layers) = 2 /\ layers[1].clips = <<>>
    /\ selectedClipLayerId = 1 /\ selectedClipId = 1
    /\ Selection(prev) # Selection(Tracker)

----------------------------------------------------------------------------
(* Properties of the growth of the tree (SpecTree) *)

\* every effect of the list old is in the list new with its name, its id
\* and all its property keys
EffectsKept(old, new) ==
    /\ Len(new) >= Len(old)
    /\ \A i \in 1..Len(old) :
          /\ new[i].id = old[i].id /\ new[i].name = old[i].name
          /\ DOMAIN old[i].properties \subseteq DOMAIN new[i].properties

ClipKept(old, new) ==
    /\ new.id = old.id
    /\ DOMAIN old.properties \subseteq DOMAIN new.properties
    /\ EffectsKept(old.effects, new.effects)

LayerKept(old, new) ==
    /\ new.id = old.id
    /\ DOMAIN old.properties \subseteq DOMAIN new.properties
    /\ EffectsKept(old.effects, new.effects)
    /\ Len(new.clips) >= Len(old.clips)
    /\ \A j \in 1..Len(old.clips) : ClipKept(old.clips[j], new.clips[j])

\* the layer id and the clip id in the address of m, 0 for none
AddressedLayer(m) ==
    IF AddressesClip(m) \/ AddressesLayer(m) THEN Stoi(Parts(m)[3]) ELSE 0
AddressedClip(m) ==
    IF AddressesClip(m) THEN Stoi(Parts(m)[5]) ELSE 0

\* every node of old but the one m addresses is in new as it was
OthersUntouched(old, new, m) ==
    \A i \in 1..Len(old.layers) :
        IF i # AddressedLayer(m)
        THEN new.layers[i] = old.layers[i]
        ELSE \A j \in 1..Len(old.layers[i].clips) :
                j # AddressedClip(m)
                => new.layers[i].clips[j] = old.layers[i].clips[j]

\* C24: applying a message that is not a deck change removes no layer, clip
\* or effect and deletes no stored property, and leaves every node other
\* than the addressed one, in particular all nodes that existed before the
\* layer or clip list grew, exactly as it was.
C24_NodesNeverRemoved ==
    (actor = "worker" /\ currentDeckId = prev.currentDeckId)
    => /\ Len(layers) >= Len(prev.layers)
       /\ \A i \in 1..Len(prev.layers) :
             LayerKept(prev.layers[i], layers[i])
       /\ OthersUntouched(prev, Tracker, lastMsg)

\* the worker has just grown the clip list of a layer whose clip 1 has a
\* name, a property and an effect
C24_Witness ==
    /\ actor = "worker"
    /\ AddressedLayer(lastMsg) = 1 /\ AddressedClip(lastMsg) = 3
    /\ Len(prev.layers) >= 1
    /\ Len(prev.layers[1].clips) = 1
    /\ Len(layers[1].clips) = 3
    /\ layers[1].clips[1].name = "A"
    /\ layers[1].clips[1].properties # EmptyProperties
    /\ layers[1].clips[1].effects # <<>>

\* the path below the node m addresses
NodePath(m) ==
    IF AddressesClip(m) THEN DropFirst(Parts(m), 5)
    ELSE DropFirst(Parts(m), 3)

\* m addresses video/effects/<name>... of a clip or of a layer
IsEffectReport(m) ==
    /\ IsClipReport(m) \/ IsLayerReport(m)
    /\ NodePath(m) # <<>>
    /\ IsEffectPath(NodePath(m))

\* the effect list of the owner m addresses, empty when the owner is not
\* there
OwnerEffects(t, m) ==
    LET l == AddressedLayer(m)
        c == AddressedClip(m)
    IN IF ~HasLayer(t, l) THEN <<>>
       ELSE IF ~AddressesClip(m) THEN t.layers[l].effects
       ELSE IF HasClip(t.layers[l], c) THEN t.layers[l].clips[c].effects
       ELSE <<>>

EffectsWellFormed(effects) ==
    /\ \A i \in 1..Len(effects) : effects[i].id = i
    /\ \A i, j \in 1..Len(effects) :
          i # j => effects[i].name # effects[j].name

\* C32: in every layer and every clip the effect at position i has id i and
\* no two effects share a name; a message for an effect name the owner
\* already has adds no effect, one for a new name appends one effect with
\* that name and the next id.
C32_EffectIdentity ==
    /\ \A i \in 1..Len(layers) :
          /\ EffectsWellFormed(layers[i].effects)
          /\ \A j \in 1..Len(layers[i].clips) :
                EffectsWellFormed(layers[i].clips[j].effects)
    /\ (actor = "worker" /\ IsEffectReport(lastMsg))
       => LET old == OwnerEffects(prev, lastMsg)
              new == OwnerEffects(Tracker, lastMsg)
              name == NodePath(lastMsg)[3]
          IN IF \E i \in 1..Len(old) : old[i].name = name
             THEN Len(new) = Len(old)
             ELSE /\ Len(new) = Len(old) + 1
                  /\ new[Len(new)].name = name
                  /\ new[Len(new)].id = Len(old) + 1

\* the clip already had "blur"; a second message for "blur" added nothing
\* and a message for "glow" made effect 2
C32_Witness ==
    /\ actor = "worker" /\ IsEffectReport(lastMsg)
    /\ AddressesClip(lastMsg)
    /\ NodePath(lastMsg)[3] = "blur"
    /\ Len(OwnerEffects(prev, lastMsg)) = 2
    /\ OwnerEffects(Tracker, lastMsg)[1].name = "blur"
    /\ OwnerEffects(Tracker, lastMsg)[2].name = "glow"
    /\ OwnerEffects(Tracker, lastMsg)[2].id = 2

\* C39: the layer list holds at most 100 layers, the layer in slot i has id
\* i, and in every layer the clip in slot j has id j.
C39_TreeShape ==
    /\ getLayerCount(Tracker) >= 0
    /\ getLayerCount(Tracker) <= MaxLayerId
    /\ \A i \in 1..Len(layers) :
          /\ layers[i].id = i
          /\ \A j \in 1..Len(layers[i].clips) : layers[i].clips[j].id = j

\* layers 1..3 and the 101 clips of layer 2 are all there, each with the id
\* of its slot, after messages for layer 3 and for clip 101 of layer 2
C39_Witness ==
    /\ Len(layers) = 3
    /\ Len(layers[2].clips) = MaxLayerId + 1
    /\ layers[2].clips[MaxLayerId + 1].id = MaxLayerId + 1
    /\ layers[2].clips[1].id = 1
    /\ Len(layers[1].clips) >= 1

\* a clip property message with numeric layer and clip ids of at least 1
AddressesValidClip(m) ==
    AddressesClip(m) /\ AddressedLayer(m) >= 1 /\ AddressedClip(m) >= 1

\* C25: after a property message addressed to clip c >= 1 of layer n >= 1,
\* getLayerCount() >= n and layer n holds at least c clips, however large
\* n and c are.
C25_NoUpperBound ==
    (actor = "worker" /\ AddressesValidClip(lastMsg))
    => /\ getLayerCount(Tracker) >= AddressedLayer(lastMsg)
       /\ Len(layers[AddressedLayer(lastMsg)].clips)
             >= AddressedClip(lastMsg)

\* C26: neither the layer list nor the clip list of any layer grows beyond
\* the ceiling on ids.
C26_SanityCeiling ==
    /\ Len(layers) <= MaxLayerId
    /\ \A i \in 1..Len(layers) : Len(layers[i].clips) <= MaxLayerId

----------------------------------------------------------------------------
(* Properties of the property dictionary (SpecPayload) *)

\* the properties of clip c of layer l, none when the clip is not there
ClipProperties(t, l, c) ==
    IF HasLayer(t, l) /\ HasClip(t.layers[l], c)
    THEN t.layers[l].clips[c].properties
    ELSE EmptyProperties

\* the value the payload of m is to leave under its key
FirstByPriority(m) ==
    IF m.floats # <<>>
    THEN [type |-> "float", num |-> m.floats[1], str |-> ""]
    ELSE IF m.integers # <<>>
    THEN [type |-> "int", num |-> m.integers[1], str |-> ""]
    ELSE [type |-> "string", num |-> 0, str |-> m.strings[1]]

\* C28: after a property message with a payload, the key holds exactly the
\* first float if there is one, else the first integer if there is one, else
\* the first string, with the matching type tag, and every other key holds
\* what it held.
C28_PayloadPriority ==
    (actor = "worker" /\ IsClipReport(lastMsg) /\ HasPayload(lastMsg))
    => LET l == Stoi(Parts(lastMsg)[3])
           c == Stoi(Parts(lastMsg)[5])
           old == ClipProperties(prev, l, c)
           new == ClipProperties(Tracker, l, c)
       IN /\ DOMAIN new = DOMAIN old \cup {NodeKey(lastMsg)}
          /\ new[NodeKey(lastMsg)] = FirstByPriority(lastMsg)
          /\ \A k \in DOMAIN old : k # NodeKey(lastMsg) => new[k] = old[k]

\* a message with two floats, integers and strings has just replaced a
\* stored string by its first float
C28_Witness ==
    /\ actor = "worker" /\ IsClipReport(lastMsg)
    /\ Len(lastMsg.floats) = 2
    /\ lastMsg.integers # <<>> /\ lastMsg.strings # <<>>
    /\ NodeKey(lastMsg) \in DOMAIN ClipProperties(prev, 1, 1)
    /\ ClipProperties(prev, 1, 1)[NodeKey(lastMsg)].type = "string"
    /\ ClipProperties(Tracker, 1, 1)[NodeKey(lastMsg)]
          = [type |-> "float", num |-> lastMsg.floats[1], str |-> ""]

\* keys and defaults the getters are asked with
GetterKeys ==
    {JoinEndpoint(p) : p \in PayloadPaths} \cup {<<"missing">>}
NumberDefaults == {0, 3}
StringDefaults == {"", "d"}

\* C29: on every dictionary the getters answer the default for a missing
\* key; getFloat and getInt answer the stored number, converted to the type
\* asked for, and the default for a string; getString answers the stored
\* string and the default for a number.
C29_GettersNeverFail ==
    LET p == ClipProperties(Tracker, 1, 1)
    IN \A k \in GetterKeys :
          /\ \A d \in NumberDefaults :
                /\ getFloat(p, k, d) =
                      (IF k \notin DOMAIN p THEN d
                       ELSE IF p[k].type = "float" THEN p[k].num
                       ELSE IF p[k].type = "int" THEN 2 * p[k].num
                       ELSE d)
                /\ getInt(p, k, d) =
                      (IF k \notin DOMAIN p THEN d
                       ELSE IF p[k].type = "int" THEN p[k].num
                       ELSE IF p[k].type = "float" THEN p[k].num \div 2
                       ELSE d)
          /\ \A d \in StringDefaults :
                getString(p, k, d) =
                   (IF k \notin DOMAIN p THEN d
                    ELSE IF p[k].type = "string" THEN p[k].str
                    ELSE d)

\* the dictionary holds a float of one half under one key and a string
\* under the other
C29_Witness ==
    LET p == ClipProperties(Tracker, 1, 1)
    IN /\ <<"video", Slash, "opacity">> \in DOMAIN p
       /\ p[<<"video", Slash, "opacity">>] = FloatValue(1)
       /\ TransportPosition \in DOMAIN p
       /\ p[TransportPosition].type = "string"

----------------------------------------------------------------------------
(* Properties of the pad press (SpecPad) *)

\* C33: right after the UI has called timeoutAllExcept(c) on layer l, the
\* other clips of l are not playing, clip c is what it was, and
\* doesClipExist of every clip, every clip name, getLayerCount(),
\* getColumnCount() and the selection scalars are what they were.
C33_TimeoutFrame ==
    actor = "ui"
    => \A l \in PadLayers, c \in PadColumns :
          /\ \A j \in 1..Len(layers[l].clips) :
                j # c => ~isClipPlaying(Tracker, j, l, now)
          /\ HasClip(prev.layers[l], c)
                => layers[l].clips[c] = prev.layers[l].clips[c]
          /\ \A ll \in ProbeIds, cc \in ProbeIds :
                doesClipExist(Tracker, cc, ll) = doesClipExist(prev, cc, ll)
          /\ \A i \in 1..Len(prev.layers) :
                \A j \in 1..Len(prev.layers[i].clips) :
                    layers[i].clips[j].name = prev.layers[i].clips[j].name
          /\ getLayerCount(Tracker) = getLayerCount(prev)
          /\ getColumnCount(Tracker) = getColumnCount(prev)
          /\ Selection(Tracker) = Selection(prev)

----------------------------------------------------------------------------
(* Properties of the router on other shapes (SpecShapes) *)

RecognizedShape(m) ==
    \/ IsDeckSelectMsg(m)
    \/ IsColumnMsg(m, "select") \/ IsColumnMsg(m, "connect")
    \/ IsLayerSelectMsg(m)
    \/ IsClipMsg(m, "select") \/ IsClipMsg(m, "connect")

\* last segment select, connect, selected or connected on an address under
\* /composition that is none of the recognised shapes
UnrecognizedShape(m) ==
    /\ Len(Parts(m)) >= 2
    /\ Parts(m)[1] = "composition"
    /\ Back(Parts(m)) \in SelectionVerbs
    /\ ~RecognizedShape(m)

\* the payload of m is the value of property NodeKey(m) of the layer or
\* clip that m addresses
StoredOnNode(t, m) ==
    LET l == Stoi(Parts(m)[3])
        want == setFromOSCData(EmptyProperties, NodeKey(m), m.floats,
                               m.integers, m.strings)[NodeKey(m)]
    IN /\ HasLayer(t, l)
       /\ IF AddressesClip(m)
          THEN LET c == Stoi(Parts(m)[5])
               IN /\ HasClip(t.layers[l], c)
                  /\ hasProperty(t.layers[l].clips[c].properties, NodeKey(m))
                  /\ t.layers[l].clips[c].properties[NodeKey(m)] = want
          ELSE /\ hasProperty(t.layers[l].properties, NodeKey(m))
               /\ t.layers[l].properties[NodeKey(m)] = want

\* C15: a message ending in select, connect, selected or connected on an
\* address that is none of the recognised shapes changes no selection
\* scalar and, when it addresses a layer or a clip and carries a payload,
\* is stored as a property of that node.
C15_UnrecognizedShapes ==
    (actor = "worker" /\ UnrecognizedShape(lastMsg))
    => /\ Selection(Tracker) = Selection(prev)
       /\ (HasPayload(lastMsg)
           /\ (AddressesClip(lastMsg) \/ AddressesLayer(lastMsg)))
          => StoredOnNode(Tracker, lastMsg)

\* the address does not start with the /composition root, or the id after
\* decks, columns or layers, or the id after clips, is no number
Malformed(m) ==
    \/ Parts(m) = <<>>
    \/ Parts(m)[1] # "composition"
    \/ /\ Len(Parts(m)) >= 3
       /\ Parts(m)[2] \in {"decks", "columns", "layers"}
       /\ StoiThrows(Parts(m)[3])
    \/ /\ Len(Parts(m)) >= 5
       /\ Parts(m)[2] = "layers" /\ Parts(m)[4] = "clips"
       /\ StoiThrows(Parts(m)[5])

\* C19: a message with a malformed address leaves the tree (getLayerCount()
\* and every clip list included) and all selection scalars unchanged.
C19_MalformedDropped ==
    (actor = "worker" /\ Malformed(lastMsg))
    => Observable(Tracker) = Observable(prev)

----------------------------------------------------------------------------
(* Properties of the playing state (SpecClock) *)

PositionKey(l, c) == <<l, c, TransportPosition>>

\* the position last reported for a clip, in halves
ReportedPosition(r) ==
    IF r.floats # <<>> THEN r.floats[1]
    ELSE IF r.integers # <<>> THEN 2 * r.integers[1]
    ELSE 0

\* C12: with t the time of the last transport/position message applied to a
\* clip, isClipPlaying is true at every time before t + 100 ms when the last
\* reported position is > 0, false at every time from t + 100 ms on, and
\* false whenever the last reported position is <= 0.
C12_PlayingDecay ==
    \A l \in 1..2, c \in 1..2 :
        PositionKey(l, c) \in DOMAIN reported
        => LET r == reported[PositionKey(l, c)]
           IN /\ (ReportedPosition(r) > 0 /\ now < r.at + PlayingWindowMs)
                 => isClipPlaying(Tracker, c, l, now)
              /\ now >= r.at + PlayingWindowMs
                 => ~isClipPlaying(Tracker, c, l, now)
              /\ ReportedPosition(r) <= 0
                 => ~isClipPlaying(Tracker, c, l, now)

----------------------------------------------------------------------------
(* Properties of ingestion (SpecIngest) *)

\* C4: the worker applies messages in the order the transport delivered
\* them: the delivery positions of the applied messages strictly increase
\* (no reordering, no duplicate), and each worker step applies one message.
C4_FifoOrder ==
    /\ \A i, j \in 1..Len(applied) : i < j => applied[i] < applied[j]
    /\ \A i \in 1..Len(applied) : applied[i] \in enqueued

\* two messages have been applied while a third was waiting in the queue
C4_Witness ==
    /\ Len(applied) = 2
    /\ messageQueue # <<>>
    /\ actor = "worker"

\* C5: the tree and the selection scalars change only in steps of the worker
\* thread (the control operations clear and setCurrentDeck aside); no step
\* of a UI thread changes them.
C5_SingleWriter ==
    [][(layers' # layers \/ Selection(Tracker)' # Selection(Tracker))
        => actor' \in {"worker", "clear", "setCurrentDeck"}]_vars

\* C6: once clear() called from another thread has returned, no message the
\* transport delivered before that clear() is applied to the tree.
C6_ClearDiscardsInFlight ==
    \A i \in (clearMark.applied + 1)..Len(applied) :
        applied[i] > clearMark.delivered

ClearPostcondition ==
    /\ getLayerCount(Tracker) = 0
    /\ getColumnCount(Tracker) = 0
    /\ Selection(Tracker) = NoSelection
    /\ messageQueue = <<>>

\* C7: right after clear() completes (called directly, through
\* setCurrentDeck, or by the worker on a deck change), getLayerCount() = 0,
\* getColumnCount() = 0, the five selection scalars are 0 and the ingestion
\* queue is empty.
C7_ClearPostcondition ==
    [][(\/ ExternalClear
        \/ \E d \in DeckIds :
              /\ deckInitialized /\ d # currentDeckId
              /\ ExternalSetCurrentDeck(d)
        \/ /\ WorkerApply
           /\ IsDeckSelectMsg(wmsg) /\ wmsg.integers = <<>>
           /\ Id1(wmsg) # currentDeckId)
       => ClearPostcondition']_vars

\* clear() has just emptied a tracker that held a named clip and a selected
\* layer while a message was waiting in the queue
C7_Witness ==
    /\ actor = "clear"
    /\ getColumnCount(prev) > 0
    /\ prev.selectedLayerId # 0
    /\ prev.messageQueue # <<>>
    /\ ClearPostcondition

\* C18: in every reachable state, setCurrentDeck(id) with id different from
\* currentDeckId clears all entities and the selection state, with id equal
\* to currentDeckId it changes neither, and afterwards currentDeckId = id.
C18_SetCurrentDeck ==
    [][\A d \in DeckIds :
          ExternalSetCurrentDeck(d)
          => /\ currentDeckId' = d
             /\ d # currentDeckId
                => (layers' = <<>> /\ Selection(Tracker)' = NoSelection)
             /\ d = currentDeckId
                => (layers' = layers
                    /\ Selection(Tracker)' = Selection(Tracker))]_vars

\* "bool isDeckInitialized() const { return deckInitialized; }"
isDeckInitialized(t) == t.deckInitialized

\* C38: in every state in which a deck is current, whether it was adopted
\* through a deck-select message or through setCurrentDeck,
\* isDeckInitialized() is true.
C38_DeckInitialized ==
    currentDeckId # 0 => isDeckInitialized(Tracker)

----------------------------------------------------------------------------
(* Properties of query correlation (SpecQuery) *)

Payload(m) ==
    [address |-> m.address, floats |-> m.floats, integers |-> m.integers,
     strings |-> m.strings]

AppliedSeqs == {applied[i] : i \in 1..Len(applied)}

\* C2: when a query was the only one outstanding and the transport
\* delivered a message with its address while it waited, the query returns
\* the payload of (the first such) message, not a timeout, and that message
\* is neither put on the ingestion queue nor applied to the tree.
C2_QueryCorrelation ==
    \A q \in Callers :
        (pc[q] = "done" /\ qsolo[q] /\ qseen[q] # 0)
        => /\ outcome[q] # "timeout"
           /\ qkind[q] = "query" => outcome[q] = "ok"
           /\ result[q].hasValue
           /\ Payload(result[q]) = Payload(delivered[qseen[q]])
           /\ qseen[q] \notin enqueued
           /\ qseen[q] \notin AppliedSeqs

\* QueryString on the clip name, alone, has returned the delivered name
\* while the worker went on applying other messages
C2_Witness ==
    \E q \in Callers :
        /\ pc[q] = "done" /\ qsolo[q] /\ qseen[q] # 0
        /\ qkind[q] = "QueryString" /\ outcome[q] = "ok"
        /\ qaddr[q] = NameAddr
        /\ result[q].strings = <<"Intro">>
        /\ applied # <<>>

\* C3: a query during which no message with its address was delivered ends
\* with the timeout error and never with a payload, and the step in which
\* it fails leaves the tree and the selection state unchanged.
C3_QueryTimeout ==
    /\ [](\A q \in Callers :
            (pc[q] = "done" /\ qseen[q] = 0)
            => (outcome[q] = "timeout" /\ result[q] = EmptyMessage))
    /\ [][(\E q \in Callers : QueryTimeout(q))
           => UNCHANGED trackerVars]_vars

\* a query has timed out, no message with its address having been
\* delivered, although messages with other addresses were, and the tree is
\* populated
C3_Witness ==
    \E q \in Callers :
        /\ pc[q] = "done" /\ qseen[q] = 0 /\ outcome[q] = "timeout"
        /\ delivered # <<>>
        /\ layers # <<>>

\* positions in the delivery order, from position i on, of the messages
\* with address a
RepliesFrom(a, i) ==
    {j \in i..Len(delivered) : delivered[j].address = a}

\* both callers have finished a query on one address, and exactly one reply
\* on that address was delivered, while both were waiting
SharedReply(q1, q2) ==
    /\ q1 # q2
    /\ pc[q1] = "done" /\ pc[q2] = "done"
    /\ qaddr[q1] = qaddr[q2]
    /\ qseen[q1] # 0 /\ qseen[q1] = qseen[q2]
    /\ RepliesFrom(qaddr[q1], qseen[q1]) = {qseen[q1]}

\* C20: a query(A) issued while another query(A) is pending overwrites the
\* shared slot with an empty one; when a single reply for A is delivered
\* while both wait, exactly one caller returns that reply and the other
\* ends with the timeout error.
C20_OneQueryPerAddress ==
    /\ [](\A q1, q2 \in Callers :
            SharedReply(q1, q2)
            => \/ /\ outcome[q1] # "timeout"
                  /\ Payload(result[q1]) = Payload(delivered[qseen[q1]])
                  /\ outcome[q2] = "timeout" /\ result[q2] = EmptyMessage
               \/ /\ outcome[q2] # "timeout"
                  /\ Payload(result[q2]) = Payload(delivered[qseen[q2]])
                  /\ outcome[q1] = "timeout" /\ result[q1] = EmptyMessage)
    /\ [][\A q \in Callers, a \in QueryAddrs :
            (\E k \in QueryKinds(q) : QueryStart(q, a, k))
            => pendingQueries'[a] = EmptyMessage]_vars

\* two callers queried the clip name at the same time, one reply came: one
\* caller has it, the other has timed out
C20_Witness ==
    \E q1, q2 \in Callers :
        /\ SharedReply(q1, q2)
        /\ qaddr[q1] = NameAddr
        /\ outcome[q1] = "ok" /\ result[q1].strings = <<"Intro">>
        /\ outcome[q2] = "timeout"

\* C21: whenever no query() call is in progress the pending-query map is
\* empty, after successes, timeouts and overlapping queries on one address
\* alike; hence a message delivered while no query is in progress is put on
\* the ingestion queue.
C21_PendingCleanup ==
    /\ [](Outstanding = {} => pendingQueries = EmptyPending)
    /\ [][(Outstanding = {} /\ Len(delivered') = Len(delivered) + 1)
           => /\ Len(delivered') \in enqueued'
              /\ messageQueue' = Append(messageQueue,
                                        delivered'[Len(delivered')])]_vars

\* both callers have finished overlapping queries on one address, one with
\* the reply and one with the timeout, and a message on that address
\* delivered afterwards is waiting in the queue
C21_Witness ==
    /\ Outstanding = {}
    /\ pendingQueries = EmptyPending
    /\ \E q1, q2 \in Callers :
          /\ q1 # q2 /\ pc[q1] = "done" /\ pc[q2] = "done"
          /\ qaddr[q1] = qaddr[q2]
          /\ qseen[q1] # 0 /\ qseen[q1] = qseen[q2]
          /\ outcome[q1] = "ok" /\ outcome[q2] = "timeout"
          /\ \E i \in 1..Len(messageQueue) :
                /\ messageQueue[i].address = qaddr[q1]
                /\ messageQueue[i].seq > qseen[q1]

Copies(i) ==
    Cardinality({j \in 1..Len(messageQueue) : messageQueue[j].seq = i})
    + (IF wpc = "process" /\ wmsg.seq = i THEN 1 ELSE 0)
    + Cardinality({j \in 1..Len(applied) : applied[j] = i})

\* C30: a delivery that finds an unsatisfied pending entry for its address
\* fills that one entry and leaves the queue and the other entries alone;
\* any other delivery, one that finds its entry already satisfied included,
\* appends the message once to the queue and leaves the pending map alone.
\* A message handed to a query is never on the worker's path, a queued one
\* is there at most once.
C30_ExactlyOnceDisposition ==
    /\ [](\A i \in 1..Len(delivered) :
             Copies(i) <= IF i \in enqueued THEN 1 ELSE 0)
    /\ [][Len(delivered') = Len(delivered) + 1
          => LET msg == delivered'[Len(delivered')]
                 a == msg.address
             IN IF a \in DOMAIN pendingQueries /\ ~pendingQueries[a].hasValue
                THEN /\ pendingQueries' = [pendingQueries EXCEPT ![a] = msg]
                     /\ messageQueue' = messageQueue
                     /\ msg.seq \notin enqueued'
                ELSE /\ pendingQueries' = pendingQueries
                     /\ messageQueue' = Append(messageQueue, msg)
                     /\ msg.seq \in enqueued']_vars

\* message 1 filled the slot of a caller that has not yet picked it up and
\* message 2, for the same address, went to the queue
C30_Witness ==
    /\ Len(delivered) = 2
    /\ delivered[1].address = delivered[2].address
    /\ PendingHasValue(pendingQueries, delivered[1].address)
    /\ pendingQueries[delivered[1].address].seq = 1
    /\ enqueued = {2}
    /\ Len(messageQueue) = 1 /\ messageQueue[1].seq = 2
    /\ \E q \in Outstanding : qaddr[q] = delivered[1].address

\* C31: a step sends a message only as the start of a query() call and every
\* started call sends exactly one: the probe goes to the queried address
\* with the string "?", and when it has left the pending map holds an unset
\* entry for that address, so a reply is matched against the entry.
C31_ProbeOrdering ==
    /\ [][sent' # sent
          => \E q \in Callers :
                /\ pc[q] = "idle" /\ pc'[q] = "waiting"
                /\ sent' = Append(sent, [address |-> qaddr'[q],
                                         value |-> "?"])
                /\ qaddr'[q] \in DOMAIN pendingQueries'
                /\ ~pendingQueries'[qaddr'[q]].hasValue]_vars
    /\ [][(\E q \in Callers : pc[q] = "idle" /\ pc'[q] = "waiting")
          => Len(sent') = Len(sent) + 1]_vars

\* one probe was sent and the first message delivered afterwards, to the
\* probed address, was handed to the caller and kept out of the queue
C31_Witness ==
    \E q \in Callers :
        /\ Len(sent) = 1 /\ sent[1].address = qaddr[q]
        /\ pc[q] = "done" /\ outcome[q] = "ok"
        /\ result[q].hasValue /\ result[q].seq = 1
        /\ 1 \notin enqueued

\* C37: a reply held in a pending slot leaves the slot only by being
\* returned to a caller: in every step that removes or replaces a filled
\* entry, some caller leaves the wait with that very message as its result.
C37_NoReplyLost ==
    [][\A a \in DOMAIN pendingQueries :
          (/\ pendingQueries[a].hasValue
           /\ (a \notin DOMAIN pendingQueries'
               \/ pendingQueries'[a] # pendingQueries[a]))
          => \E q \in Callers :
                /\ pc[q] = "waiting" /\ pc'[q] = "done"
                /\ result'[q] = pendingQueries[a]]_vars

TypedKinds == {"QueryInt", "QueryFloat", "QueryString"}

TypedArray(kind, reply) ==
    CASE kind = "QueryInt" -> reply.integers
      [] kind = "QueryFloat" -> reply.floats
      [] kind = "QueryString" -> reply.strings

\* C8: QueryInt / QueryFloat / QueryString end in a failure that is not the
\* timeout error whenever the reply has an empty array of the requested
\* type, and never return a value then.
C8_TypedWrappersFail ==
    \A q \in Callers :
        (/\ pc[q] = "done"
         /\ qkind[q] \in TypedKinds
         /\ result[q].hasValue
         /\ TypedArray(qkind[q], result[q]) = <<>>)
        => outcome[q] = "type_error"

----------------------------------------------------------------------------
(* Properties of the worker loop and of shutdown (SpecLive) *)

WasApplied(i) == \E j \in 1..Len(applied) : applied[j] = i

\* message i went to the queue and is no longer anywhere on the worker's path
Dropped(i) == i \in enqueued /\ Copies(i) = 0

\* some queued message is neither queued nor in the worker's hands after the
\* step
LeavesQueueUntaken ==
    \E j \in 1..Len(messageQueue) :
        /\ \A k \in 1..Len(messageQueue') :
              messageQueue'[k].seq # messageQueue[j].seq
        /\ ~(wpc' = "process" /\ wmsg'.seq = messageQueue[j].seq)

\* C35: with the worker scheduled fairly, every message appended to the
\* queue is eventually applied, unless a clear or a deck change removed it
\* from the queue or the stop flag was set; and a message leaves the queue
\* without being taken by the worker only in a step that clears the tree.
C35_EventualApplication ==
    /\ \A i \in 1..MaxMsgs :
          (i \in enqueued)
             ~> (WasApplied(i) \/ Dropped(i) \/ shouldStopProcessing)
    /\ [][LeavesQueueUntaken
          => (messageQueue' = <<>> /\ layers' = <<>>
              /\ Selection(Tracker)' = NoSelection)]_vars

\* three messages were queued and all three have been applied, in order,
\* with no clear and no shutdown
C35_Witness ==
    /\ enqueued = {1, 2, 3}
    /\ applied = <<1, 2, 3>>
    /\ clearMark.delivered = 0
    /\ ~shouldStopProcessing
    /\ layers # <<>>

\* message i is a deck select without integer payload
DeliveredDeckSelect(i) ==
    /\ i \in 1..Len(delivered)
    /\ IsDeckSelectMsg(delivered[i]) /\ delivered[i].integers = <<>>

\* C36: with the worker scheduled fairly, every message the transport
\* delivered after a deck select is eventually applied, unless clear() was
\* called from outside after its delivery or the stop flag was set.
C36_NewDeckDataKept ==
    \A i \in 1..MaxMsgs, j \in 1..MaxMsgs :
        (i < j /\ DeliveredDeckSelect(i) /\ j \in enqueued)
           ~> (WasApplied(j) \/ clearMark.delivered >= j
               \/ shouldStopProcessing)

\* C40 as stated: after the stop flag is set the worker exits, and no message
\* that was in the queue when the flag was set is taken or applied.
C40_ShutdownLeavesQueue ==
    /\ shouldStopProcessing ~> (wpc = "exited")
    /\ [][(shouldStopProcessing /\ wpc # "process")
          => (wmsg' = wmsg /\ applied' = applied)]_vars

\* C40 amended: after the stop flag is set the worker exits; before it does
\* it applies at most one more message, the one it holds or the one it takes
\* in the loop turn it had entered before the flag was set, and once it is
\* back at the loop test or has exited nothing is taken or applied.
C40_ShutdownTerminates ==
    /\ shouldStopProcessing ~> (wpc = "exited")
    /\ [][(shouldStopProcessing /\ wpc \in {"poll", "exited"})
          => (/\ wpc' \in {"poll", "exited"}
              /\ wmsg' = wmsg
              /\ applied' = applied
              /\ (wpc = "exited" => wpc' = "exited"))]_vars
    /\ [][(shouldStopProcessing /\ wpc = "checked")
          => wpc' \in {"checked", "process", "poll"}]_vars
    /\ [][(shouldStopProcessing /\ wpc = "process")
          => wpc' \in {"process", "poll"}]_vars

\* the worker has exited with a message left in the queue, after applying
\* the message it took in the turn the flag was set in
C40_Witness ==
    /\ shouldStopProcessing /\ wpc = "exited"
    /\ messageQueue # <<>>
    /\ applied # <<>>

====
